---- MODULE Spec2Model ----
(***************************************************************************)
(* Model of the extraction pipeline of canada_immigration_data:            *)
(* extract_pr.py, extract_imp_tfw.py, extract_study.py, extract_asylum.py  *)
(* and extract_hc.py.  A run reads one raw grid, locates the header rows,  *)
(* builds the canonical column axis, cleans labels and numbers, infers the *)
(* total flags, melts the wide table and writes the CSV.  Downstream of    *)
(* the extractors, extracted_agg.py reads the CSVs of the six streams and  *)
(* sums the detail rows by stream and year, and the sankey_*_data.py        *)
(* builders read one CSV each, build the links of the diagram, validate    *)
(* their sums against the CSV and write the HTML artifact.                 *)
(*                                                                         *)
(* Text is a sequence of one-character strings.  The two special spaces    *)
(* U+00A0 and U+202F are the tokens "NBSP" and "NNBSP".  A cell of the     *)
(* grid is NaN (an empty cell), Int(n) (a numeric cell) or Str(s).         *)
(* Row and column indices are 0-based, as in the code.                     *)
(***************************************************************************)
EXTENDS Integers, Sequences, FiniteSets, TLC

VARIABLES
    ds,           \* which extractor runs: "pr", "imp_tfw", "study", "asylum", "hc"
    raw,          \* the raw grid read from the sheet: rows of cells
    trim_bottom,  \* extract_imp_tfw's trim flag (the "no-trim" argument)
    nanEq,        \* whether two NaN labels of a key compare equal (object identity)
    pc,           \* position of the run: "start", "parsed", "transformed",
                  \* "melted", "written", "failed"; "idle" when no extractor runs
    wide,         \* the wide table (record) once parsed
    long,         \* the long records once melted
    csv,          \* the rows written to the output CSV, or NoFile
    err,          \* the error that ended the run, or "none"
    files,        \* goc_data_processed: the CSV of each stream, or NoFile
    agg_pc,       \* position of extracted_agg: "idle", "load", "done",
                  \* "no_data", "failed"
    agg_i,        \* the entry of source_files the loading loop is at (1-based)
    subset_tables,\* the subset tables loaded so far
    agg_csv,      \* extracted_agg.csv, or NoFile
    sankey_pc,    \* position of the Sankey builder that reads csv: "idle",
                  \* "start", "built", "validated", "written", "failed"
    long_df,      \* the builder's long rows: totals and zero values dropped
    links,        \* the builder's link tables, one per level
    html,         \* the HTML artifact, or NoFile
    sankey_err    \* the error that ended the builder, or "none"

\* the state of the consumers downstream of the extractors
aggregator == <<files, agg_pc, agg_i, subset_tables, agg_csv>>
builder == <<sankey_pc, long_df, links, html, sankey_err>>
downstream == <<aggregator, builder>>

\* the state of an extractor run
extractor == <<ds, raw, trim_bottom, nanEq, pc, wide, long, csv, err>>

vars == <<ds, raw, trim_bottom, nanEq, pc, wide, long, csv, err, downstream>>

(***************************************************************************)
(* Cells                                                                   *)
(***************************************************************************)
NaN == [k |-> "nan"]
Int0(n) == [k |-> "int", v |-> n]
Str(s) == [k |-> "str", s |-> s]

IsNa(x) == x.k = "nan"
NotNa(x) == ~IsNa(x)

NoFile == [exists |-> FALSE]

(***************************************************************************)
(* Characters and text                                                     *)
(***************************************************************************)
UpperChars == <<"A","B","C","D","E","F","G","H","I","J","K","L","M",
                "N","O","P","Q","R","S","T","U","V","W","X","Y","Z">>
LowerChars == <<"a","b","c","d","e","f","g","h","i","j","k","l","m",
                "n","o","p","q","r","s","t","u","v","w","x","y","z">>
DigitChars == <<"0","1","2","3","4","5","6","7","8","9">>

ToLowerChar(c) ==
    IF \E i \in DOMAIN UpperChars : UpperChars[i] = c
    THEN LowerChars[CHOOSE i \in DOMAIN UpperChars : UpperChars[i] = c]
    ELSE c

\* str.lower()
ToLower(s) == [i \in 1..Len(s) |-> ToLowerChar(s[i])]

\* what str.strip() and the regex class \s take as white space
IsSpace(c) == c \in {" ", "NBSP", "NNBSP"}

IsDigit(c) == \E i \in DOMAIN DigitChars : DigitChars[i] = c
DigitVal(c) == (CHOOSE i \in DOMAIN DigitChars : DigitChars[i] = c) - 1

\* str.rstrip(), str.lstrip(), str.strip()
RStrip(s) ==
    IF \A i \in 1..Len(s) : IsSpace(s[i]) THEN <<>>
    ELSE SubSeq(s, 1, CHOOSE j \in 1..Len(s) :
                        /\ ~IsSpace(s[j])
                        /\ \A m \in (j+1)..Len(s) : IsSpace(s[m]))
LStrip(s) ==
    IF \A i \in 1..Len(s) : IsSpace(s[i]) THEN <<>>
    ELSE SubSeq(s, CHOOSE j \in 1..Len(s) :
                        /\ ~IsSpace(s[j])
                        /\ \A m \in 1..(j-1) : IsSpace(s[m]), Len(s))
Strip(s) == LStrip(RStrip(s))

EndsWith(s, suf) ==
    /\ Len(s) >= Len(suf)
    /\ SubSeq(s, Len(s) - Len(suf) + 1, Len(s)) = suf

\* str.replace(c, "") for a one-character c
RemoveChar(s, c) == SelectSeq(s, LAMBDA x : x # c)

RECURSIVE NatToStr(_)
NatToStr(n) ==
    IF n < 10 THEN <<DigitChars[n + 1]>>
    ELSE NatToStr(n \div 10) \o <<DigitChars[(n % 10) + 1]>>

\* str(n) of an integer
IntToStr(n) == IF n < 0 THEN <<"-">> \o NatToStr(-n) ELSE NatToStr(n)

RECURSIVE DigitsToNat(_)
DigitsToNat(s) ==
    IF Len(s) = 0 THEN 0
    ELSE 10 * DigitsToNat(SubSeq(s, 1, Len(s) - 1)) + DigitVal(s[Len(s)])

AllDigits(s) == Len(s) > 0 /\ \A i \in 1..Len(s) : IsDigit(s[i])

\* int(s) of a text: surrounding white space, an optional sign, digits.
\* IntParses says whether int(s) succeeds, IntOf gives its value.
IntBody(s) == LET t == Strip(s) IN
    IF Len(t) > 0 /\ t[1] = "-" THEN Tail(t) ELSE t
IntParses(s) == AllDigits(IntBody(s))
IntOf(s) == LET t == Strip(s) IN
    IF Len(t) > 0 /\ t[1] = "-" THEN 0 - DigitsToNat(Tail(t)) ELSE DigitsToNat(t)

\* str(x) of a cell, also Series.astype(str)
AsStr(x) ==
    IF x.k = "nan" THEN <<"n","a","n">>
    ELSE IF x.k = "int" THEN IntToStr(x.v)
    ELSE x.s

(***************************************************************************)
(* Grid access                                                             *)
(***************************************************************************)
NRows(g) == Len(g)
NCols(g) == IF Len(g) = 0 THEN 0 ELSE Len(g[1])
\* raw.iloc[i, c]
Cell(g, i, c) == g[i + 1][c + 1]
\* raw.iloc[i]
GridRow(g, i) == g[i + 1]

Min2(a, b) == IF a < b THEN a ELSE b
Max2(a, b) == IF a > b THEN a ELSE b
MinOf(S) == CHOOSE x \in S : \A y \in S : x <= y
MaxOf(S) == CHOOSE x \in S : \A y \in S : x >= y

(***************************************************************************)
(* Text constants of the code                                              *)
(***************************************************************************)
T_total == <<"t","o","t","a","l">>
T_Total == <<"T","o","t","a","l">>
T_nan == <<"n","a","n">>
T_None == <<"N","o","n","e">>
T_NaN == <<"N","a","N">>
T_dashes == <<"-","-">>
T_province == <<"p","r","o","v","i","n","c","e">>
T_territory == <<"t","e","r","r","i","t","o","r","y">>
T_other_offices == <<"o","t","h","e","r"," ","o","f","f","i","c","e","s">>
T_not_stated == <<"n","o","t"," ","s","t","a","t","e","d">>
T_Not_stated == <<"N","o","t"," ","s","t","a","t","e","d">>
T_anomaly_lower ==
    <<"p","r","o","v","i","n","c","e","/","t","e","r","r","i","t","o","r","y",
      " ","n","o","t"," ","s","t","a","t","e","d"," ","t","o","t","a","l">>
T_Anomaly ==
    <<"P","r","o","v","i","n","c","e","/","t","e","r","r","i","t","o","r","y",
      " ","n","o","t"," ","s","t","a","t","e","d"," ","T","o","t","a","l">>
T_edu_not_stated ==
    <<"E","d","u","c","a","t","i","o","n"," ","l","e","v","e","l",
      " ","n","o","t"," ","s","t","a","t","e","d">>
T_country_header ==
    <<"c","o","u","n","t","r","y"," ","o","f"," ",
      "c","i","t","i","z","e","n","s","h","i","p">>
T_subcategory == <<" ","(","s","u","b","c","a","t","e","g","o","r","y",")">>

MonthAbbrevs ==
    << <<"J","a","n">>, <<"F","e","b">>, <<"M","a","r">>, <<"A","p","r">>,
       <<"M","a","y">>, <<"J","u","n">>, <<"J","u","l">>, <<"A","u","g">>,
       <<"S","e","p">>, <<"O","c","t">>, <<"N","o","v">>, <<"D","e","c">> >>

\* the names of the hierarchy columns, by position
BaseCols == <<"province_territory", "category_1", "category_2", "category_3">>

(***************************************************************************)
(* Numeric Cell Normalizer                                                 *)
(***************************************************************************)
\* .str.replace(",", "").str.replace(U+202F, "").str.replace(U+00A0, "").str.strip()
StripSeparators(s) ==
    Strip(RemoveChar(RemoveChar(RemoveChar(s, ","), "NNBSP"), "NBSP"))

\* the placeholder table with "--" mapped to "0" like the blanks
ReplacePlaceholders_dashes_as_blank(s) ==
    IF s = T_dashes \/ s = <<>> \/ s = T_nan \/ s = T_None THEN <<"0">> ELSE s

\* .replace({"--": "2", "": "0", "nan": "0", "None": "0"}): whole-value matches
ReplacePlaceholders(s) ==
    IF s = T_dashes THEN <<"2">>
    ELSE IF s = <<>> \/ s = T_nan \/ s = T_None THEN <<"0">>
    ELSE s

\* pd.to_numeric(errors="coerce").fillna(0) of a text over the cell alphabet
\* (signs, digits, letters, spaces): a signed run of digits parses, anything
\* else, "nan" included, is NaN and is filled with 0.
ToNumericFill0(s) == IF IntParses(s) THEN IntOf(s) ELSE 0

\* extract_pr, extract_study, extract_asylum, extract_hc
NormalizeCellMonthly(x) ==
    ToNumericFill0(ReplacePlaceholders(StripSeparators(AsStr(x))))

\* extract_imp_tfw: the "--" placeholder is replaced on the raw cell value,
\* before any stripping
ReplaceDashRaw(x) == IF x = Str(T_dashes) THEN Int0(2) ELSE x
NormalizeCellImp(x) ==
    ToNumericFill0(StripSeparators(AsStr(ReplaceDashRaw(x))))

NormalizeCell(d, x) ==
    IF d = "imp_tfw" THEN NormalizeCellImp(x) ELSE NormalizeCellMonthly(x)

(***************************************************************************)
(* Header Locator                                                          *)
(***************************************************************************)
MaxScanRowsPr == 12
MinYearsPr == 5
MonthOffsetPr == 2
MaxScanRowsAsylum == 12
MinYearsAsylum == 3
MonthOffsetAsylum == 1
MaxScanRowsStudy == 10
MinYearsStudy == 4
MinMonthsStudy == 6
MaxScanRowsImp == 12
MaxFirstCols == 8
MinYearsImp == 5
FirstStartImp == 2
YearLo == 1900
YearHi == 2100
HcYearRow == 2
HcMonthRow == 4
MinHier == 1
MaxHier == 4
AsylumHier == 2

\* is_year of extract_pr, extract_asylum, extract_imp_tfw: int(x) of the cell
is_year(x) ==
    IF x.k = "int" THEN YearLo <= x.v /\ x.v <= YearHi
    ELSE IF x.k = "str" THEN IntParses(x.s) /\ YearLo <= IntOf(x.s) /\ IntOf(x.s) <= YearHi
    ELSE FALSE

\* _is_year_like of extract_study: int(str(x).strip())
is_year_like(x) ==
    LET s == AsStr(x) IN IntParses(s) /\ YearLo <= IntOf(s) /\ IntOf(s) <= YearHi

\* month_map.get(str(x).strip()): the month number 1..12, or 0 for None
MonthIndex(x) ==
    IF IsNa(x) THEN 0
    ELSE LET s == Strip(AsStr(x)) IN
         IF \E i \in DOMAIN MonthAbbrevs : MonthAbbrevs[i] = s
         THEN CHOOSE i \in DOMAIN MonthAbbrevs : MonthAbbrevs[i] = s
         ELSE 0

is_month_abbrev(x) == MonthIndex(x) # 0

YearCols(g, i) == {c \in 0..(NCols(g) - 1) : is_year(Cell(g, i, c))}

\* the scan taken over every row of the sheet, whatever the budget
YearRowCandidates_whole_sheet(g, maxScan, minYears) ==
    {i \in 0..(NRows(g) - 1) : Cardinality(YearCols(g, i)) >= minYears}

\* the scanned rows that hold at least minYears year cells
YearRowCandidates(g, maxScan, minYears) ==
    {i \in 0..(Min2(maxScan, NRows(g)) - 1) : Cardinality(YearCols(g, i)) >= minYears}

\* the month row taken directly below the year row, whatever the offset
HeaderAt_month_row_below(g, i, offset) ==
    [ok |-> TRUE, year_row |-> i, month_row |-> i + 1,
     first_data_col |-> MinOf(YearCols(g, i))]

HeaderAt(g, i, offset) ==
    [ok |-> TRUE, year_row |-> i, month_row |-> i + offset,
     first_data_col |-> MinOf(YearCols(g, i))]

\* the row with the most year cells taken instead of the first
FirstCandidate_best_scoring(g, cand, offset) ==
    IF cand = {} THEN [ok |-> FALSE, err |-> "HeaderNotFound"]
    ELSE HeaderAt(g, CHOOSE i \in cand :
                        \A j \in cand : Cardinality(YearCols(g, i)) >= Cardinality(YearCols(g, j)),
                  offset)

FirstCandidate(g, cand, offset) ==
    IF cand = {} THEN [ok |-> FALSE, err |-> "HeaderNotFound"]
    ELSE HeaderAt(g, MinOf(cand), offset)

\* detect_header_structure (extract_pr) and _detect_header_structure_asylum:
\* the first scanned row with at least minYears year cells
DetectYearRow(g, maxScan, minYears, offset) ==
    FirstCandidate(g, YearRowCandidates(g, maxScan, minYears), offset)

detect_header_structure(g) ==
    DetectYearRow(g, MaxScanRowsPr, MinYearsPr, MonthOffsetPr)

detect_header_structure_asylum(g) ==
    DetectYearRow(g, MaxScanRowsAsylum, MinYearsAsylum, MonthOffsetAsylum)

YearLikeCount(g, r) ==
    Cardinality({c \in 0..(NCols(g) - 1) : is_year_like(Cell(g, r, c))})
MonthLikeCount(g, r) ==
    Cardinality({c \in 0..(NCols(g) - 1) : is_month_abbrev(Cell(g, r, c))})

StudyYearCandidates(g) ==
    {r \in 0..(Min2(MaxScanRowsStudy, NRows(g)) - 1) : YearLikeCount(g, r) >= MinYearsStudy}
StudyMonthCandidates(g, yr) ==
    {r \in (yr + 1)..(Min2(MaxScanRowsStudy, NRows(g)) - 1) :
        MonthLikeCount(g, r) >= MinMonthsStudy}

StudyMonthRow(yr, mc) ==
    IF mc = {} THEN [ok |-> FALSE, err |-> "HeaderNotFound"]
    ELSE [ok |-> TRUE, year_row |-> yr, month_row |-> MinOf(mc), first_data_col |-> 2]

StudyYearRow(g, yc) ==
    IF yc = {} THEN [ok |-> FALSE, err |-> "HeaderNotFound"]
    ELSE StudyMonthRow(MinOf(yc), StudyMonthCandidates(g, MinOf(yc)))

\* detect_year_and_month_rows (extract_study)
detect_year_and_month_rows(g) == StudyYearRow(g, StudyYearCandidates(g))

\* int(v) of a year cell
YearCellValue(x) == IF x.k = "int" THEN x.v ELSE IntOf(x.s)

\* the run of year cells at the head of row i from column c on
RECURSIVE YearRun(_, _, _)
YearRun(g, i, c) ==
    IF c < NCols(g) /\ is_year(Cell(g, i, c))
    THEN <<YearCellValue(Cell(g, i, c))>> \o YearRun(g, i, c + 1)
    ELSE <<>>

\* the (row, start column) pairs with a run of at least MinYearsImp years
ImpHits(g) ==
    {p \in (0..(Min2(MaxScanRowsImp, NRows(g)) - 1))
             \X (FirstStartImp..(Min2(MaxFirstCols, NCols(g) - 5) - 1)) :
        Len(YearRun(g, p[1], p[2])) >= MinYearsImp}

ImpHeaderAt(g, i, st) ==
    [ok |-> TRUE, year_row |-> i, first_data_col |-> st, years |-> YearRun(g, i, st)]

ImpFirstInRow(g, hits, i) ==
    ImpHeaderAt(g, i, MinOf({p[2] : p \in {q \in hits : q[1] = i}}))

ImpFirstHit(g, hits) ==
    IF hits = {} THEN [ok |-> FALSE, err |-> "HeaderNotFound"]
    ELSE ImpFirstInRow(g, hits, MinOf({p[1] : p \in hits}))

\* detect_header_and_year_start (extract_imp_tfw): rows in order, and in a row
\* the start columns 2 .. min(max_first_cols, ncols - 5) - 1 in order
detect_header_and_year_start(g) == ImpFirstHit(g, ImpHits(g))

(***************************************************************************)
(* Canonical Axis Builder                                                  *)
(***************************************************************************)
\* year_vals.ffill(): the last non-NaN cell of row yr at or left of column c
FilledFrom(g, yr, seen) == IF seen = {} THEN NaN ELSE Cell(g, yr, MaxOf(seen))
\* the year cell of the column itself, without the forward fill
YearFfill_own_cell(g, yr, c) == Cell(g, yr, c)

YearFfill(g, yr, c) == FilledFrom(g, yr, {b \in 0..c : NotNa(Cell(g, yr, b))})

\* re.match(r"^(\d{4})", s)
LeadingYearMatches(s) == Len(s) >= 4 /\ AllDigits(SubSeq(s, 1, 4))

\* the year of a (forward-filled) year cell: int(str(v).strip()), else the
\* leading four digits of str(v); YearParses is false when the column is dropped
YearTextParses(s) == IntParses(s) \/ LeadingYearMatches(s)
YearOfText(s) == IF IntParses(s) THEN IntOf(s) ELSE DigitsToNat(SubSeq(s, 1, 4))
YearParses(v) == NotNa(v) /\ YearTextParses(AsStr(v))
YearOf(v) == YearOfText(AsStr(v))

\* f"{y:04d}"
PadTo(s, w) == [i \in 1..(Max2(w, Len(s)) - Len(s)) |-> "0"] \o s
Format04(y) ==
    IF y < 0 THEN <<"-">> \o PadTo(NatToStr(0 - y), 3) ELSE PadTo(NatToStr(y), 4)

\* the month number without its leading zero
MonthNum_unpadded(i) == NatToStr(i)

\* the two-digit month number of the month map
MonthNum(i) == IF i < 10 THEN <<"0", DigitChars[i + 1]>> ELSE NatToStr(i)

\* f"{y:04d}-{month_num}"
YearMonthKey(y, m) == Format04(y) \o <<"-">> \o MonthNum(m)

\* the source columns kept as canonical columns, left to right
KeepCol(g, yr, mr, c) ==
    /\ MonthIndex(Cell(g, mr, c)) # 0
    /\ YearParses(YearFfill(g, yr, c))

RECURSIVE KeptCols(_, _, _, _)
KeptCols(g, yr, mr, c) ==
    IF c >= NCols(g) THEN <<>>
    ELSE (IF KeepCol(g, yr, mr, c) THEN <<c>> ELSE <<>>) \o KeptCols(g, yr, mr, c + 1)

ColKey(g, yr, mr, c) ==
    YearMonthKey(YearOf(YearFfill(g, yr, c)), MonthIndex(Cell(g, mr, c)))

KeysOf(g, yr, mr, kc) == [i \in 1..Len(kc) |-> ColKey(g, yr, mr, kc[i])]

\* new_headers without the hierarchy names
AxisKeys(g, yr, mr, first) == KeysOf(g, yr, mr, KeptCols(g, yr, mr, first))

HasDuplicates(s) == \E i, j \in 1..Len(s) : i < j /\ s[i] = s[j]

(***************************************************************************)
(* Hierarchy Normalizer: label cleaning                                    *)
(***************************************************************************)
\* re.sub(r"\s+total$", "", s, flags=re.IGNORECASE)
RemoveTotalSuffix(s) ==
    IF /\ Len(s) > Len(T_total)
       /\ EndsWith(ToLower(s), T_total)
       /\ IsSpace(s[Len(s) - Len(T_total)])
    THEN RStrip(SubSeq(s, 1, Len(s) - Len(T_total)))
    ELSE s

\* re.sub(r"\s*-\s*$", "", s)
RemoveDashSuffix(s) ==
    LET t == RStrip(s) IN
    IF Len(t) > 0 /\ t[Len(t)] = "-" THEN RStrip(SubSeq(t, 1, Len(t) - 1)) ELSE s

\* .str.replace(r"\s*-\s*Total$", "", regex=True): case-sensitive
RemoveDashTotalSuffix(s) ==
    IF EndsWith(s, T_Total)
    THEN LET t == RStrip(SubSeq(s, 1, Len(s) - Len(T_Total))) IN
         IF Len(t) > 0 /\ t[Len(t)] = "-" THEN RStrip(SubSeq(t, 1, Len(t) - 1)) ELSE s
    ELSE s

\* a cleaning without the branch that keeps a standalone "Total"
clean_without_standalone_total(d, x) ==
    IF IsNa(x) THEN x
    ELSE LET s == Strip(AsStr(x)) IN
         IF d = "study" /\ ToLower(s) = T_anomaly_lower THEN Str(T_Anomaly)
         ELSE IF d = "pr" THEN Str(Strip(RemoveDashSuffix(RemoveTotalSuffix(s))))
         ELSE Str(Strip(RemoveTotalSuffix(s)))

\* _clean_province_territory_value of extractor d
clean_province_territory_value(d, x) ==
    IF IsNa(x) THEN x
    ELSE LET s == Strip(AsStr(x)) IN
         IF d = "study" /\ ToLower(s) = T_anomaly_lower THEN Str(T_Anomaly)
         ELSE IF ToLower(s) = T_total THEN Str(T_Total)
         ELSE IF d = "pr" THEN Str(Strip(RemoveDashSuffix(RemoveTotalSuffix(s))))
         ELSE Str(Strip(RemoveTotalSuffix(s)))

\* .astype(str).str.strip().str.lower()
NormLabel(x) == ToLower(Strip(AsStr(x)))
IsTotalLabel(x) == NormLabel(x) = T_total

\* the values the "stray empties" filters drop
StrayTexts == {T_nan, T_None, <<>>, T_NaN}

(***************************************************************************)
(* Rows of the sheet below the header: lab, the hierarchy cells, and val,  *)
(* the cells of the kept value columns                                     *)
(***************************************************************************)
\* the cells of row i in the columns cols: raw.iloc[i, cols]
RowCells(g, i, cols) ==
    SubSeq([j \in 1..Len(cols) |-> Cell(g, i, cols[j])], 1, Len(cols))

DataRows(g, firstRow, labCols, valCols) ==
    [i \in 1..Max2(0, NRows(g) - firstRow) |->
        [lab |-> RowCells(g, firstRow + i - 1, labCols),
         val |-> RowCells(g, firstRow + i - 1, valCols)]]

SetLabel(r, j, x) == [r EXCEPT !.lab[j] = x]

\* the cut made at the first row whose label j reads "Total"
TrimAtLastTotal_first(rows, j) ==
    LET tot == {i \in 1..Len(rows) : IsTotalLabel(rows[i].lab[j])}
    IN  IF tot = {} THEN rows ELSE SubSeq(rows, 1, MinOf(tot))

\* keep the rows up to and including the last one whose label j reads "Total"
TrimAtLastTotal(rows, j) ==
    LET tot == {i \in 1..Len(rows) : IsTotalLabel(rows[i].lab[j])}
    IN  IF tot = {} THEN rows ELSE SubSeq(rows, 1, MaxOf(tot))

NormalizeVals(d, rows) ==
    [i \in 1..Len(rows) |->
        [j \in 1..Len(rows[i].val) |-> NormalizeCell(d, rows[i].val[j])]]

Labels(rows) == [i \in 1..Len(rows) |-> rows[i].lab]

Range0(n) == [i \in 1..n |-> i - 1]

Failed(e) == [ok |-> FALSE, err |-> e]


(***************************************************************************)
(* Parsing: raw grid to wide table.  A result is Failed(error) or a record *)
(* with the hierarchy column names, the label rows, the canonical keys,    *)
(* the numeric rows and (extract_asylum only) the total flags.             *)
(***************************************************************************)
Wide(hcols, labels, keys, vals, flags) ==
    [ok |-> TRUE, hcols |-> hcols, labels |-> labels, keys |-> keys,
     vals |-> vals, flags |-> flags]

NoFlags == <<>>

\* data[c] = data[c].map(_clean_province_territory_value) on the first column
CleanFirstLabel(d, rows) ==
    [i \in 1..Len(rows) |->
        SetLabel(rows[i], 1, clean_province_territory_value(d, rows[i].lab[1]))]

\* data[~data["province_territory"].isin(["nan", "None", "", "NaN"])]
PrDropStray(rows) ==
    SelectSeq(rows, LAMBDA r : ~(r.lab[1].k = "str" /\ r.lab[1].s \in StrayTexts))

\* data[~pt_norm.isin({"province", "territory"})]
PrDropHeaderLabels(rows) ==
    SelectSeq(rows, LAMBDA r : NormLabel(r.lab[1]) \notin {T_province, T_territory})

PrRows(rows0) ==
    PrDropHeaderLabels(PrDropStray(TrimAtLastTotal(CleanFirstLabel("pr", rows0), 1)))

\* the wide table handed on whatever its keys
PrTable_keeps_duplicates(hier_n, rows, keys) ==
    Wide(SubSeq(BaseCols, 1, hier_n), Labels(rows), keys,
         NormalizeVals("pr", rows), NoFlags)

PrTable(hier_n, rows, keys) ==
    IF HasDuplicates(keys) THEN Failed("AttributeError")
    ELSE Wide(SubSeq(BaseCols, 1, hier_n), Labels(rows), keys,
              NormalizeVals("pr", rows), NoFlags)

\* a column count outside MinHier..MaxHier forced into the range
PrParsed_clamps_depth(g, yr, mr, first) ==
    IF mr >= NRows(g) THEN Failed("IndexError")
    ELSE PrTable(Max2(MinHier, Min2(MaxHier, first)),
                 PrRows(DataRows(g, mr + 1, Range0(Max2(MinHier, Min2(MaxHier, first))),
                                 KeptCols(g, yr, mr, Max2(MinHier, Min2(MaxHier, first))))),
                 AxisKeys(g, yr, mr, Max2(MinHier, Min2(MaxHier, first))))

PrParsed(g, yr, mr, first) ==
    IF mr >= NRows(g) THEN Failed("IndexError")
    ELSE IF first < MinHier \/ first > MaxHier THEN Failed("UnexpectedHierarchyDepth")
    ELSE PrTable(first,
                 PrRows(DataRows(g, mr + 1, Range0(first), KeptCols(g, yr, mr, first))),
                 AxisKeys(g, yr, mr, first))

PrFromHeader(g, det) ==
    IF ~det.ok THEN det
    ELSE PrParsed(g, det.year_row, det.month_row, det.first_data_col)

\* parse_pr_data
parse_pr_data(g) == PrFromHeader(g, detect_header_structure(g))

ImpRows(rows0, trim) ==
    IF trim THEN TrimAtLastTotal(CleanFirstLabel("imp_tfw", rows0), 1)
    ELSE CleanFirstLabel("imp_tfw", rows0)

ImpTable(hier_n, rows, years) ==
    IF HasDuplicates(years) THEN Failed("AttributeError")
    ELSE Wide(SubSeq(BaseCols, 1, hier_n), Labels(rows), years,
              NormalizeVals("imp_tfw", rows), NoFlags)

ImpParsed(g, yr, first, years, trim) ==
    IF first < MinHier \/ first > MaxHier THEN Failed("UnexpectedHierarchyDepth")
    ELSE ImpTable(first,
                  ImpRows(DataRows(g, yr + 1, Range0(first),
                                   [i \in 1..Len(years) |-> first + i - 1]), trim),
                  years)

ImpFromHeader(g, det, trim) ==
    IF ~det.ok THEN det
    ELSE ImpParsed(g, det.year_row, det.first_data_col, det.years, trim)

\* parse_input_generic (extract_imp_tfw)
parse_input_generic(g, trim) == ImpFromHeader(g, detect_header_and_year_start(g), trim)

StudyTable(rows, keys) ==
    IF HasDuplicates(keys) THEN Failed("AttributeError")
    ELSE Wide(<<"province_territory", "study_level">>, Labels(rows), keys,
              NormalizeVals("study", rows), NoFlags)

StudyParsed(g, yr, mr) ==
    StudyTable(TrimAtLastTotal(CleanFirstLabel("study",
                   DataRows(g, mr + 1, <<0, 1>>, KeptCols(g, yr, mr, 2))), 1),
               AxisKeys(g, yr, mr, 2))

StudyFromHeader(g, det) ==
    IF ~det.ok THEN det ELSE StudyParsed(g, det.year_row, det.month_row)

\* build_monthly_dataframe (extract_study)
build_monthly_dataframe(g) == StudyFromHeader(g, detect_year_and_month_rows(g))

\* a fill taken from above: the last non-NaN cell at or above row i
BfillAt_from_above(labels, j, i) ==
    IF {m \in 1..i : NotNa(labels[m][j])} = {} THEN NaN
    ELSE labels[MaxOf({m \in 1..i : NotNa(labels[m][j])})][j]

\* Series.bfill() on column j of the label rows: the next non-NaN cell at or
\* below row i, NaN when there is none
FirstOf(labels, j, below) == IF below = {} THEN NaN ELSE labels[MinOf(below)][j]
BfillAt(labels, j, i) ==
    FirstOf(labels, j, {m \in i..Len(labels) : NotNa(labels[m][j])})

IsBlankText(x) == IsNa(x) \/ Strip(AsStr(x)) = <<>>

\* the claim_office_type column of extract_asylum: an originally blank cell
\* takes the text of the backfilled value less a trailing " - Total"
AsylumOfficeType(labels, i) ==
    IF IsBlankText(labels[i][1])
    THEN Str(RemoveDashTotalSuffix(AsStr(BfillAt(labels, 1, i))))
    ELSE labels[i][1]

\* total_flag without the 'Other Offices' exclusion
AsylumSubtotal_with_other_offices(lab) ==
    /\ NotNa(lab[1]) /\ Strip(AsStr(lab[1])) # <<>>
    /\ IsBlankText(lab[2])

\* total_flag of extract_asylum before the last Total row is forced
AsylumSubtotal(lab) ==
    /\ NotNa(lab[1]) /\ Strip(AsStr(lab[1])) # <<>>
    /\ IsBlankText(lab[2])
    /\ NormLabel(lab[1]) # T_other_offices

\* data["province_territory"].map(_clean_province_territory_value)
AsylumCleanProvince(rows) ==
    [i \in 1..Len(rows) |->
        SetLabel(rows[i], 2, clean_province_territory_value("asylum", rows[i].lab[2]))]

\* data["claim_office_type"] = _orig_cot.where(~_was_blank, _bfilled_clean)
AsylumFillOffice(rows) ==
    [i \in 1..Len(rows) |-> SetLabel(rows[i], 1, AsylumOfficeType(Labels(rows), i))]

\* total_rows / last_total_idx: each row remembers whether it is the last
\* row whose claim_office_type reads "Total"
AsylumMarkLastTotal(rows) ==
    [i \in 1..Len(rows) |->
        [lab |-> rows[i].lab, val |-> rows[i].val,
         last |-> /\ IsTotalLabel(rows[i].lab[1])
                  /\ \A m \in (i + 1)..Len(rows) : ~IsTotalLabel(rows[m].lab[1])]]

\* data[~data["claim_office_type"].astype(str).isin(["nan", "None", "", "NaN"])]
AsylumDropStray(rows) ==
    SelectSeq(rows, LAMBDA r : AsStr(r.lab[1]) \notin StrayTexts)

\* total_flag looking at the first value cell: a row of value 1 is no total
AsylumFlags_small_rows_unflagged(rows) ==
    [i \in 1..Len(rows) |->
        (AsylumSubtotal(rows[i].lab) /\ rows[i].val[1] # Int0(1)) \/ rows[i].last]

\* total_flag, the last Total row forced to True
AsylumFlags(rows) ==
    [i \in 1..Len(rows) |-> AsylumSubtotal(rows[i].lab) \/ rows[i].last]

AsylumRows(rows0) ==
    AsylumDropStray(TrimAtLastTotal(AsylumMarkLastTotal(
        AsylumFillOffice(AsylumCleanProvince(rows0))), 1))

AsylumTable(rows, keys) ==
    IF HasDuplicates(keys) THEN Failed("AttributeError")
    ELSE Wide(<<"claim_office_type", "province_territory">>, Labels(rows), keys,
              NormalizeVals("asylum", rows), AsylumFlags(rows))

AsylumFirstCol(c) == IF c < AsylumHier THEN AsylumHier ELSE c

AsylumParsed(g, yr, mr, first) ==
    AsylumTable(AsylumRows(DataRows(g, mr + 1, <<0, 1>>, KeptCols(g, yr, mr, first))),
                AxisKeys(g, yr, mr, first))

AsylumFromHeader(g, det) ==
    IF ~det.ok THEN det
    ELSE IF det.month_row >= NRows(g) THEN Failed("IndexError")
    ELSE AsylumParsed(g, det.year_row, det.month_row, AsylumFirstCol(det.first_data_col))

\* parse_asylum_data
parse_asylum_data(g) == AsylumFromHeader(g, detect_header_structure_asylum(g))

\* data[col] = data[col].astype(str).str.strip()
HcStripLabels(rows) ==
    [i \in 1..Len(rows) |-> SetLabel(rows[i], 1, Str(Strip(AsStr(rows[i].lab[1]))))]

HcCutAt(rows, tot) == IF tot = {} THEN rows ELSE SubSeq(rows, 1, MaxOf(tot) - 1)

\* data.loc[: matches.max() - 1]: the last Total row itself goes too
HcTrimBeforeTotal(rows) ==
    HcCutAt(rows, {i \in 1..Len(rows) : ToLower(rows[i].lab[1].s) = T_total})

HcDropStray(rows) == SelectSeq(rows, LAMBDA r : r.lab[1].s \notin StrayTexts)

HcDropHeaderLabels(rows) ==
    SelectSeq(rows, LAMBDA r : ToLower(r.lab[1].s) # T_country_header)

HcTable(rows, keys) ==
    IF HasDuplicates(keys) THEN Failed("AttributeError")
    ELSE Wide(<<"country_citizenship">>, Labels(rows), keys,
              NormalizeVals("hc", rows), NoFlags)

\* clean_citizenship_xlsx (extract_hc)
clean_citizenship_xlsx(g) ==
    IF NRows(g) <= HcMonthRow THEN Failed("IndexError")
    ELSE HcTable(HcDropHeaderLabels(HcDropStray(HcTrimBeforeTotal(HcStripLabels(
                     DataRows(g, HcMonthRow + 1, <<0>>,
                              KeptCols(g, HcYearRow, HcMonthRow, 1)))))),
                 AxisKeys(g, HcYearRow, HcMonthRow, 1))

ParseGrid(d, g, trim) ==
    IF d = "pr" THEN parse_pr_data(g)
    ELSE IF d = "imp_tfw" THEN parse_input_generic(g, trim)
    ELSE IF d = "study" THEN build_monthly_dataframe(g)
    ELSE IF d = "asylum" THEN parse_asylum_data(g)
    ELSE clean_citizenship_xlsx(g)


(***************************************************************************)
(* Hierarchy Normalizer: backfill, and the Total Inference Engine          *)
(***************************************************************************)
\* df[col].bfill() on column j
BfillColumn(labels, j) ==
    [i \in 1..Len(labels) |-> [labels[i] EXCEPT ![j] = BfillAt(labels, j, i)]]

\* groupby(parent_key, dropna=False)[col].apply(bfill): column j is filled
\* from the next non-NaN cell below among the rows with the same labels in
\* columns 1..j-1 (NaN keys group together)
GroupBfillAt(labels, j, i) ==
    FirstOf(labels, j, {m \in i..Len(labels) :
                          /\ SubSeq(labels[m], 1, j - 1) = SubSeq(labels[i], 1, j - 1)
                          /\ NotNa(labels[m][j])})

GroupBfillColumn(labels, j) ==
    [i \in 1..Len(labels) |-> [labels[i] EXCEPT ![j] = GroupBfillAt(labels, j, i)]]

\* the loop "for level in range(1, depth)": columns 2 .. n-1 in order
RECURSIVE InfillLevels(_, _, _)
InfillLevels(labels, j, n) ==
    IF j > n - 1 THEN labels
    ELSE InfillLevels(GroupBfillColumn(labels, j), j + 1, n)

\* an infill that goes on through the deepest level
Infill_through_leaf(labels, n) == InfillLevels(BfillColumn(labels, 1), 2, n + 1)

Infill(labels, n) == InfillLevels(BfillColumn(labels, 1), 2, n)

NoLevel == -1

\* candidate_level not looking at the leaf column
candidate_level_ignores_leaf(row) ==
    LET depth == Len(row) - 1
        ks == {k \in 0..(depth - 1) :
                 /\ NotNa(row[k + 1])
                 /\ \A m \in (k + 1)..(depth - 1) : IsNa(row[m + 1])}
    IN  IF ks = {} THEN NoLevel ELSE MaxOf(ks)

\* candidate_level: the deepest level k (0-based) below the leaf with a label
\* at k and NaN at every deeper level; NoLevel when there is none
candidate_level(row) ==
    LET depth == Len(row) - 1
        ks == {k \in 0..(depth - 1) :
                 /\ NotNa(row[k + 1])
                 /\ \A m \in (k + 1)..depth : IsNa(row[m + 1])}
    IN  IF ks = {} THEN NoLevel ELSE MaxOf(ks)

\* tuple(r[hierarchy_cols[:k+1]]) == key_vals: element by element, identity
\* first, so two NaN are equal exactly when they are the same object
same_key(a, b, k, neq) ==
    \A m \in 1..(k + 1) : a[m] = b[m] /\ (NotNa(a[m]) \/ neq)

\* the scan not stopping at the first row whose key differs
ScanRun_crosses_boundaries(labels, i, k, neq) ==
    {j \in 1..(i - 1) : same_key(labels[j], labels[i], k, neq)}

\* the rows j < i reached by the upward scan from row i: all rows between j
\* and i share row i's key
ScanRun(labels, i, k, neq) ==
    {j \in 1..(i - 1) : \A m \in j..(i - 1) : same_key(labels[m], labels[i], k, neq)}

\* saw_detail looking at the row directly above only
saw_detail_previous_row_only(labels, i, neq) ==
    /\ candidate_level(labels[i]) # NoLevel
    /\ i > 1
    /\ same_key(labels[i - 1], labels[i], candidate_level(labels[i]), neq)
    /\ NotNa(labels[i - 1][candidate_level(labels[i]) + 2])

\* saw_detail of row i
saw_detail(labels, i, neq) ==
    LET k == candidate_level(labels[i]) IN
    /\ k # NoLevel
    /\ \E j \in ScanRun(labels, i, k, neq) : NotNa(labels[j][k + 2])

\* the first 'Total' row taken for the last
LastTotalRow_first(labels) ==
    IF \A i \in 1..Len(labels) : ~IsTotalLabel(labels[i][1]) THEN 0
    ELSE MinOf({i \in 1..Len(labels) : IsTotalLabel(labels[i][1])})

\* the very last 'Total' row is flagged
LastTotalRow(labels) ==
    LET tot == {i \in 1..Len(labels) : IsTotalLabel(labels[i][1])}
    IN  IF tot = {} THEN 0 ELSE MaxOf(tot)

\* the scan left out: only the last 'Total' row is flagged
ScanFlags_last_total_only(labels, neq) ==
    [i \in 1..Len(labels) |-> i = LastTotalRow(labels)]

ScanFlags(labels, neq) ==
    [i \in 1..Len(labels) |-> saw_detail(labels, i, neq) \/ i = LastTotalRow(labels)]

IsAnomalyRow(lab) == NormLabel(lab[1]) = T_anomaly_lower

\* a collision whatever the total_flag of the row
IsCollision_any_flag(lab, flag) ==
    /\ Len(lab) >= 3
    /\ NotNa(lab[2]) /\ NotNa(lab[3])
    /\ lab[2] = lab[3]

\* the collision rename of extract_imp_tfw
IsCollision(lab, flag) ==
    /\ Len(lab) >= 3
    /\ NotNa(lab[2]) /\ NotNa(lab[3])
    /\ lab[2] = lab[3]
    /\ ~flag

\* the study override left out
FinalFlags_no_override(d, filled, flags0) == flags0

\* the study override: an Anomaly row is never a total
FinalFlags(d, filled, flags0) ==
    IF d = "study"
    THEN [i \in 1..Len(filled) |-> flags0[i] /\ ~IsAnomalyRow(filled[i])]
    ELSE flags0

\* the study override of study_level and the imp_tfw collision rename
FinalLabels(d, filled, flags) ==
    IF d = "study"
    THEN [i \in 1..Len(filled) |->
            IF IsAnomalyRow(filled[i])
            THEN [filled[i] EXCEPT ![2] = Str(T_edu_not_stated)]
            ELSE filled[i]]
    ELSE IF d = "imp_tfw"
    THEN [i \in 1..Len(filled) |->
            IF IsCollision(filled[i], flags[i])
            THEN [filled[i] EXCEPT ![3] = Str(AsStr(filled[i][3]) \o T_subcategory)]
            ELSE filled[i]]
    ELSE filled

Flagged(d, w, filled, flags) ==
    [w EXCEPT !.labels = FinalLabels(d, filled, flags), !.flags = flags]

TransformFilled(d, w, filled, neq) ==
    Flagged(d, w, filled, FinalFlags(d, filled, ScanFlags(filled, neq)))

\* transform_hierarchical of extractor d on the parsed wide table w
transform_hierarchical(d, w, neq) ==
    TransformFilled(d, w, Infill(w.labels, Len(w.hcols)), neq)


(***************************************************************************)
(* Long-Format Emitter                                                     *)
(***************************************************************************)
\* str.split(ch)
RECURSIVE SplitOn(_, _)
SplitOn(s, ch) ==
    IF \A i \in 1..Len(s) : s[i] # ch THEN <<s>>
    ELSE LET i == MinOf({m \in 1..Len(s) : s[m] = ch})
         IN  <<SubSeq(s, 1, i - 1)>> \o SplitOn(SubSeq(s, i + 1, Len(s)), ch)

\* str.contains(sub, case=False)
ContainsNoCase(s, sub) ==
    \E i \in 1..(Len(s) - Len(sub) + 1) :
        SubSeq(ToLower(s), i, i + Len(sub) - 1) = ToLower(sub)

\* rows emitted wide row by wide row
MeltCell_row_major(p, nrows, ncols) ==
    <<((p - 1) \div ncols) + 1, ((p - 1) % ncols) + 1>>

\* the row and the column of the wide table that pd.melt puts at position p
\* (1-based) of the long table: all rows of the first column, then all rows
\* of the second, ...
MeltCell(p, nrows, ncols) ==
    <<((p - 1) % nrows) + 1, ((p - 1) \div nrows) + 1>>

\* the "Not stated" rewrite of category_1 after the melt (extract_pr,
\* extract_imp_tfw)
NotStatedRewrite(lab) ==
    IF Len(lab) >= 2 /\ ContainsNoCase(AsStr(lab[1]), T_not_stated)
    THEN [lab EXCEPT ![2] = Str(T_Not_stated)]
    ELSE lab

\* the rewrite made by every extractor
LongLabels_in_every_extractor(d, lab) == NotStatedRewrite(lab)

LongLabels(d, lab) == IF d \in {"pr", "imp_tfw"} THEN NotStatedRewrite(lab) ELSE lab

\* one long record of a monthly extractor; parts is the split year_month
MonthlyFields(d, w, r, c, parts) ==
    IF d = "hc"
    THEN [labels |-> LongLabels(d, w.labels[r]), year_month |-> w.keys[c],
          year |-> IntOf(parts[1]), month |-> IntOf(parts[2]),
          value |-> w.vals[r][c]]
    ELSE [labels |-> LongLabels(d, w.labels[r]), total_flag |-> w.flags[r],
          year_month |-> w.keys[c], year |-> IntOf(parts[1]),
          month |-> IntOf(parts[2]), value |-> w.vals[r][c]]

MonthlyRecord(d, w, r, c) == MonthlyFields(d, w, r, c, SplitOn(w.keys[c], "-"))

\* one long record of extract_imp_tfw
YearlyRecord(d, w, r, c) ==
    [labels |-> LongLabels(d, w.labels[r]), total_flag |-> w.flags[r],
     year |-> w.keys[c], value |-> w.vals[r][c]]

\* the melt: one record per cell, column by column
MeltRecords(d, w, nr, nc) ==
    IF d = "imp_tfw"
    THEN [p \in 1..(nr * nc) |->
            YearlyRecord(d, w, MeltCell(p, nr, nc)[1], MeltCell(p, nr, nc)[2])]
    ELSE [p \in 1..(nr * nc) |->
            MonthlyRecord(d, w, MeltCell(p, nr, nc)[1], MeltCell(p, nr, nc)[2])]

\* str.split("-", expand=True) must give exactly two columns
SplitFits(w) ==
    /\ Len(w.labels) * Len(w.keys) > 0
    /\ \A c \in 1..Len(w.keys) : Len(SplitOn(w.keys[c], "-")) = 2

\* the melt with the records of value 0 left out
unpivot_without_zeros(d, w) ==
    IF d # "imp_tfw" /\ ~SplitFits(w) THEN Failed("ValueError")
    ELSE [ok |-> TRUE,
          rows |-> SelectSeq(MeltRecords(d, w, Len(w.labels), Len(w.keys)),
                             LAMBDA r : r.value # 0)]

\* unpivot_data / unpivot_monthly / unpivot_asylum, with the rewrite that
\* follows the melt
unpivot(d, w) ==
    IF d # "imp_tfw" /\ ~SplitFits(w) THEN Failed("ValueError")
    ELSE [ok |-> TRUE, rows |-> MeltRecords(d, w, Len(w.labels), Len(w.keys))]

\* the columns of the CSV, in order
OutputColumns(d, w) ==
    IF d = "imp_tfw" THEN w.hcols \o <<"total_flag", "year", "value">>
    ELSE IF d = "hc" THEN w.hcols \o <<"year_month", "year", "month", "value">>
    ELSE IF d = "asylum"
    THEN <<"province_territory", "claim_office_type", "total_flag",
           "year_month", "year", "month", "value">>
    ELSE w.hcols \o <<"total_flag", "year_month", "year", "month", "value">>

(***************************************************************************)
(* The run: main / process_excel of each extractor                         *)
(***************************************************************************)
NoTable == [ok |-> FALSE]

\* source_files of extracted_agg, by stream name, in the order of the dict
SourceFiles == <<"asylum", "hc", "tfw", "imp", "pr", "study">>

\* no consumer is running
AggregatorIdle ==
    /\ files = [s \in {SourceFiles[i] : i \in 1..Len(SourceFiles)} |-> NoFile]
    /\ agg_pc = "idle"
    /\ agg_i = 1
    /\ subset_tables = <<>>
    /\ agg_csv = NoFile

BuilderIdle ==
    /\ sankey_pc = "idle"
    /\ long_df = <<>>
    /\ links = <<>>
    /\ html = NoFile
    /\ sankey_err = "none"

DownstreamIdle == AggregatorIdle /\ BuilderIdle

HasTransform(d) == d \in {"pr", "imp_tfw", "study"}
\* main prints month_cols[0] before going on
PrintsFirstColumn(d) == d \in {"pr", "study", "asylum"}

Fail(e) ==
    /\ pc' = "failed"
    /\ err' = e
    /\ UNCHANGED <<wide, long, csv>>

\* the parse result goes on as the wide table, or the run ends in its error
Parsed(res) ==
    IF ~res.ok THEN Fail(res.err)
    ELSE IF PrintsFirstColumn(ds) /\ Len(res.keys) = 0 THEN Fail("IndexError")
    ELSE /\ pc' = "parsed"
         /\ wide' = res
         /\ UNCHANGED <<long, csv, err>>

Parse ==
    /\ pc = "start"
    /\ Parsed(ParseGrid(ds, raw, trim_bottom))
    /\ UNCHANGED <<downstream, ds, raw, trim_bottom, nanEq>>

Transform ==
    /\ pc = "parsed"
    /\ HasTransform(ds)
    /\ wide' = transform_hierarchical(ds, wide, nanEq)
    /\ pc' = "transformed"
    /\ UNCHANGED <<downstream, ds, raw, trim_bottom, nanEq, long, csv, err>>

Melted(res) ==
    IF ~res.ok THEN Fail(res.err)
    ELSE /\ pc' = "melted"
         /\ long' = res.rows
         /\ UNCHANGED <<wide, csv, err>>

Unpivot ==
    /\ pc = (IF HasTransform(ds) THEN "transformed" ELSE "parsed")
    /\ Melted(unpivot(ds, wide))
    /\ UNCHANGED <<downstream, ds, raw, trim_bottom, nanEq>>

WriteCsv ==
    /\ pc = "melted"
    /\ csv' = [columns |-> OutputColumns(ds, wide), rows |-> long]
    /\ pc' = "written"
    /\ UNCHANGED <<downstream, ds, raw, trim_bottom, nanEq, wide, long, err>>

Next == Parse \/ Transform \/ Unpivot \/ WriteCsv

\* the state of a run that has read grid g
Start(d, g, trim, neq) ==
    /\ ds = d
    /\ raw = g
    /\ trim_bottom = trim
    /\ nanEq = neq
    /\ pc = "start"
    /\ wide = NoTable
    /\ long = <<>>
    /\ csv = NoFile
    /\ err = "none"
    /\ DownstreamIdle


(***************************************************************************)
(* Sheets.  A sheet is built from a header block in the layout of the      *)
(* extractor and data rows of label cells followed by value cells.         *)
(***************************************************************************)
L_A == Str(<<"A">>)
L_B_Total == Str(<<"B"," ","T","o","t","a","l">>)
L_Total == Str(T_Total)
L_total_padded == Str(<<" ","t","o","t","a","l"," ">>)
L_x == Str(<<"x">>)
L_p == Str(<<"p">>)
L_Anomaly == Str(T_Anomaly)
L_Other == Str(<<"O","t","h","e","r"," ","O","f","f","i","c","e","s">>)
L_A_dash_Total == Str(<<"A"," ","-"," ","T","o","t","a","l">>)
L_Jan == Str(<<"J","a","n">>)
L_Feb == Str(<<"F","e","b">>)
L_Mar == Str(<<"M","a","r">>)
L_Apr == Str(<<"A","p","r">>)
L_May == Str(<<"M","a","y">>)
L_Jun == Str(<<"J","u","n">>)
L_Q1 == Str(<<"Q","1">>)
L_na == Str(<<"n","/","a">>)

Blanks(n) == [i \in 1..n |-> NaN]

\* the year cells and the month cells over the value columns
HeaderYears(d) ==
    IF d = "imp_tfw"
    THEN <<Int0(2020), Int0(2021), Int0(2022), Int0(2023), Int0(2024), L_Q1>>
    ELSE IF d = "study"
    THEN <<Int0(2020), NaN, L_na, NaN, NaN, NaN, Int0(2021), Int0(2022), Int0(2023)>>
    ELSE <<Int0(2020), NaN, Int0(2021), Int0(2022), Int0(2023), Int0(2024)>>

HeaderMonths(d) ==
    IF d = "study"
    THEN <<L_Jan, L_Feb, L_Mar, L_Apr, L_May, L_Jun, L_Q1, L_Q1, L_Q1>>
    ELSE <<L_Jan, L_Feb, L_Q1, L_Q1, L_Q1, L_Q1>>

\* the header block over h label columns: title rows as the layout has them,
\* the year row, the quarter row where there is one, the month row
HeaderBlock(d, h, years, months) ==
    LET w == h + Len(years)
        yr == Blanks(h) \o years
        qr == Blanks(w)
        mr == Blanks(h) \o months
    IN  IF d = "imp_tfw" THEN <<yr>>
        ELSE IF d = "asylum" THEN <<yr, mr>>
        ELSE IF d = "hc" THEN <<Blanks(w), Blanks(w), yr, qr, mr>>
        ELSE <<yr, qr, mr>>

Sheet(d, h, years, months, labelRows, valueRows) ==
    HeaderBlock(d, h, years, months)
        \o [i \in 1..Len(labelRows) |-> labelRows[i] \o valueRows[i]]

\* value cells 1, 2, 3, ... in every data row
PlainValues(n, nv) == [i \in 1..n |-> [j \in 1..nv |-> Int0(j)]]

\* all sequences over S of length n, and of length lo..hi
SeqsOfLen(S, n) == [1..n -> S]
SeqsUpTo(S, lo, hi) == UNION {SeqsOfLen(S, n) : n \in lo..hi}

(***************************************************************************)
(* Runs over sheets whose label columns vary                               *)
(***************************************************************************)
MaxRows == 3

Level0Choices(d) ==
    IF d = "study" THEN {NaN, L_A, L_Total, L_Anomaly}
    ELSE IF d = "asylum" THEN {NaN, L_A, L_A_dash_Total, L_Total, L_Other}
    ELSE {NaN, L_A, L_B_Total, L_Total}

\* the label rows of depth h
LabelRowChoices(d, h) ==
    IF h = 1 THEN {<<a>> : a \in Level0Choices(d)}
    ELSE IF h = 2 THEN {<<a, b>> : a \in Level0Choices(d), b \in {NaN, L_x}}
    ELSE {<<a, b, c>> : a \in {NaN, L_A}, b \in {NaN, L_x}, c \in {NaN, L_p}}

HierDepths(d) ==
    IF d = "pr" THEN {1, 2, 3}
    ELSE IF d = "imp_tfw" THEN {2, 3}
    ELSE {2}

\* extract_asylum flags each row by its own labels: one row fewer there
HierRows(d) == IF d = "asylum" THEN MaxRows - 1 ELSE MaxRows

InitHier ==
    \E d \in {"pr", "imp_tfw", "study", "asylum"} :
    \E h \in HierDepths(d) :
    \E labs \in SeqsUpTo(LabelRowChoices(d, h), 1, HierRows(d)) :
    \E trim \in (IF d = "imp_tfw" /\ h = 2 THEN BOOLEAN ELSE {TRUE}) :
    \E neq \in (IF h >= 3 THEN BOOLEAN ELSE {TRUE}) :
        Start(d, Sheet(d, h, HeaderYears(d), HeaderMonths(d), labs,
                       PlainValues(Len(labs), Len(HeaderYears(d)))),
              trim, neq)

SpecHier == InitHier /\ [][Next]_vars


(***************************************************************************)
(* Properties of total inference                                           *)
(***************************************************************************)
\* the label rows after backfill, as the backward scan reads them
Backfilled == Infill(ParseGrid(ds, raw, trim_bottom).labels, Len(wide.hcols))

Inferred == pc = "transformed"

\* row lab is a candidate total of level k: a label at k, blank below
CandidateAt(lab, k) == NotNa(lab[k + 1]) /\ \A m \in (k + 2)..Len(lab) : IsNa(lab[m])

SharesKey(a, b, k) == SubSeq(a, 1, k + 1) = SubSeq(b, 1, k + 1)

\* some row of the unbroken run of rows directly above row i that share its
\* labels at levels 0..k has a label at level k+1
DetailInRunAbove(labels, i, k) ==
    \E j \in 1..(i - 1) :
        /\ \A m \in j..(i - 1) : SharesKey(labels[m], labels[i], k)
        /\ NotNa(labels[j][k + 2])

\* C1 as claimed: after total inference, a row with a label at level k and
\* blanks below it is flagged whenever any row with the same labels at levels
\* 0..k has a label at level k+1, wherever that row sits
C1_FlaggedWhereverDetailSits ==
    Inferred =>
        \A k \in 0..(Len(wide.hcols) - 2) :
        \A i \in 1..Len(wide.labels) :
        \A j \in 1..Len(wide.labels) :
            ( /\ CandidateAt(wide.labels[i], k)
              /\ SharesKey(wide.labels[j], wide.labels[i], k)
              /\ NotNa(wide.labels[j][k + 2]) )
            => wide.flags[i]

\* every row of labels with labels at all levels 0..k and blanks below, and
\* a detail row in the unbroken run of same-key rows directly above it, is
\* flagged, the study anomaly row excepted
RunAboveFlagged(labels, flags) ==
    \A k \in 0..(Len(wide.hcols) - 2) :
    \A i \in 1..Len(labels) :
        ( /\ CandidateAt(labels[i], k)
          /\ \A m \in 1..(k + 1) : NotNa(labels[i][m])
          /\ DetailInRunAbove(labels, i, k)
          /\ ~(ds = "study" /\ IsAnomalyRow(labels[i])) )
        => flags[i]

\* the step of a run that is its total inference
InferenceStep == pc = "parsed" /\ pc' = "transformed"

\* C1 amended: total inference flags every row with labels at all levels
\* 0..k and blanks below it when a detail row lies in the unbroken run of
\* same-key rows directly above it (labels as the backfill leaves them; the
\* study anomaly row excepted)
C1_FlaggedWhenDetailInRunAbove ==
    [][InferenceStep =>
          RunAboveFlagged(Infill(wide.labels, Len(wide.hcols)), wide'.flags)]_vars

\* a subtotal row that is not a Total row, with a detail row two rows above
\* it in its run, is flagged
SubtotalFlagged(labels, flags) ==
    \E i \in 3..Len(labels) :
        /\ CandidateAt(labels[i], 0)
        /\ ~IsTotalLabel(labels[i][1])
        /\ SharesKey(labels[i - 1], labels[i], 0) /\ IsNa(labels[i - 1][2])
        /\ SharesKey(labels[i - 2], labels[i], 0) /\ NotNa(labels[i - 2][2])
        /\ flags[i]

\* C1 witness: a subtotal row, not a Total row, flagged because of a detail
\* row two rows above it
C1_SubtotalFlagged == Inferred /\ SubtotalFlagged(Backfilled, wide.flags)

\* the rows of the written CSV that come from wide row i
RecordsOf(i) ==
    {p \in 1..Len(csv.rows) : MeltCell(p, Len(wide.labels), Len(wide.keys))[1] = i}

Written == pc = "written" /\ ds # "hc"

\* C2 as claimed: in the output, every row whose shallowest label reads
\* "Total" (trimmed, any case) has total_flag True
C2_EveryTotalRowFlagged ==
    Written =>
        \A p \in 1..Len(csv.rows) :
            IsTotalLabel(csv.rows[p].labels[1]) => csv.rows[p].total_flag

\* C2 amended: in the output, the records of the last wide row whose
\* shallowest label reads "Total" have total_flag True
C2_LastTotalRowFlagged ==
    Written =>
        \A i \in 1..Len(wide.labels) :
            ( /\ IsTotalLabel(wide.labels[i][1])
              /\ \A m \in (i + 1)..Len(wide.labels) : ~IsTotalLabel(wide.labels[m][1]) )
            => \A p \in RecordsOf(i) :
                  /\ IsTotalLabel(csv.rows[p].labels[1])
                  /\ csv.rows[p].total_flag

\* C2 witness: two Total rows are written, and the last one is flagged though
\* no detail row stands above it
C2_LastOfTwoTotalsFlagged ==
    /\ Written
    /\ ds = "pr"
    /\ \E i \in 2..Len(wide.labels) :
        /\ IsTotalLabel(wide.labels[i][1])
        /\ IsTotalLabel(wide.labels[i - 1][1])
        /\ ~saw_detail(wide.labels, i, nanEq)
        /\ \A p \in RecordsOf(i) : csv.rows[p].total_flag

\* C3: in the output of extract_asylum no "Other Offices" row, and in the
\* output of extract_study no "Province/territory not stated Total" row, has
\* total_flag True
C3_OverridesForceFalse ==
    Written =>
        \A p \in 1..Len(csv.rows) :
            ( \/ ds = "asylum" /\ NormLabel(csv.rows[p].labels[1]) = T_other_offices
              \/ ds = "study" /\ NormLabel(csv.rows[p].labels[1]) = T_anomaly_lower )
            => ~csv.rows[p].total_flag

\* C3 witness: an anomaly row of extract_study that the backward scan had
\* confirmed as a total is written with total_flag False
C3_AnomalyOverridesScan ==
    /\ Written
    /\ ds = "study"
    /\ \E i \in 1..Len(wide.labels) :
        /\ IsAnomalyRow(wide.labels[i])
        /\ ScanFlags(Infill(ParseGrid(ds, raw, trim_bottom).labels, 2), nanEq)[i]
        /\ \A p \in RecordsOf(i) : ~csv.rows[p].total_flag

(***************************************************************************)
(* Runs over sheets in which one value cell varies                         *)
(***************************************************************************)
MaxTextLen == 3

CellChars == {"-", "1", ",", " ", "NBSP", "NNBSP", "x"}

\* every text of at most MaxTextLen characters, and some longer cells
CellTexts == UNION {[1..n -> CellChars] : n \in 0..MaxTextLen}
LongerCells ==
    {NaN, Int0(7), Int0(-3), Str(T_nan), Str(T_None), Str(T_NaN),
     Str(<<"1", ",", "2", "3", "4">>), Str(<<" ", "n", "a", "n", " ">>),
     Str(<<"1", "NBSP", "2", "3", "4">>), Str(<<"1", "NNBSP", "2", "3", "4", " ">>)}
ValueCells == {Str(s) : s \in CellTexts} \cup LongerCells

NumDepth(d) == IF d = "hc" THEN 1 ELSE 2

\* one data row: its labels, the varied cell, then plain cells
NumSheet(d, x) ==
    Sheet(d, NumDepth(d), HeaderYears(d), HeaderMonths(d),
          <<SubSeq(<<L_A, L_x>>, 1, NumDepth(d))>>,
          <<<<x>> \o [j \in 1..(Len(HeaderYears(d)) - 1) |-> Int0(j)]>>)

InitNum ==
    \E d \in {"pr", "imp_tfw", "study", "asylum", "hc"} :
    \E x \in ValueCells :
        Start(d, NumSheet(d, x), TRUE, TRUE)

SpecNum == InitNum /\ [][Next]_vars

\* the varied cell of the sheet and its value in the wide table
NumCell == raw[Len(raw)][NumDepth(ds) + 1]
NumValue == wide.vals[1][1]
NumParsed == pc \in {"parsed", "transformed", "melted", "written"}

IsSeparator(c) == c \in {",", "NBSP", "NNBSP"}
DigitsWithSeparators(s) ==
    /\ \E i \in 1..Len(s) : IsDigit(s[i])
    /\ \A i \in 1..Len(s) : IsDigit(s[i]) \/ IsSeparator(s[i])
DigitsOf(s) == DigitsToNat(SelectSeq(s, IsDigit))
BlankTexts == {<<>>, T_nan, T_None}

\* the text with commas, U+00A0 and U+202F removed and then trimmed
Cleaned(s) == Strip(SelectSeq(s, LAMBDA c : ~IsSeparator(c)))

\* the cases of the claim, read on the cell text as it stands in the sheet;
\* a text counts as a number when it is one once separators and surrounding
\* white space are gone
NumAsClaimed(x, v) ==
    /\ x = Str(T_dashes) => v = 2
    /\ (IsNa(x) \/ (x.k = "str" /\ x.s \in BlankTexts)) => v = 0
    /\ (x.k = "str" /\ DigitsWithSeparators(x.s)) => v = DigitsOf(x.s)
    /\ ( /\ x.k = "str"
         /\ x.s # T_dashes
         /\ x.s \notin BlankTexts
         /\ ~IntParses(Cleaned(x.s)) ) => v = 0

NumOnCleaned(d, x, t, v) ==
    /\ (d # "imp_tfw" /\ t = T_dashes) => v = 2
    /\ (d = "imp_tfw" /\ x = Str(T_dashes)) => v = 2
    /\ (d = "imp_tfw" /\ t = T_dashes /\ x # Str(T_dashes)) => v = 0
    /\ t \in BlankTexts => v = 0
    /\ IntParses(t) => v = IntOf(t)
    /\ (t # T_dashes /\ t \notin BlankTexts /\ ~IntParses(t)) => v = 0

MaxMeltRows == 3

L_Ontario == Str(<<"O","n","t","a","r","i","o">>)
L_Quebec == Str(<<"Q","u","e","b","e","c">>)
L_NotStated == Str(T_Not_stated)
L_dashes == Str(T_dashes)
L_empty == Str(<<>>)

\* whole rows: labels and the two cells under 2020 Jan and 2020 Feb
FragmentRows(h) ==
    IF h = 1
    THEN {<<L_Ontario, Int0(10), Int0(20)>>,
          <<L_Quebec, L_dashes, L_empty>>,
          <<L_Total, Int0(15), Int0(25)>>}
    ELSE {<<L_Ontario, L_x, Int0(10), Int0(20)>>,
          <<L_NotStated, L_x, L_dashes, L_empty>>,
          <<L_NotStated, L_p, Int0(0), Int0(7)>>,
          <<L_Total, NaN, Int0(15), Int0(25)>>}

\* the cells to the right of the two: plain numbers
FragmentSheet(d, h, rows) ==
    Sheet(d, h, HeaderYears(d), HeaderMonths(d),
          [i \in 1..Len(rows) |-> SubSeq(rows[i], 1, h)],
          [i \in 1..Len(rows) |->
              SubSeq(rows[i], h + 1, h + 2)
                  \o [j \in 1..(Len(HeaderYears(d)) - 2) |-> Int0(j)]])

MeltDepths(d) == IF d = "pr" THEN {1, 2} ELSE IF d = "hc" THEN {1} ELSE {2}

InitMelt ==
    \E d \in {"pr", "imp_tfw", "study", "asylum", "hc"} :
    \E h \in MeltDepths(d) :
    \E rows \in SeqsUpTo(FragmentRows(h), 1, MaxMeltRows) :
        Start(d, FragmentSheet(d, h, rows), TRUE, TRUE)

SpecMelt == InitMelt /\ [][Next]_vars

(***************************************************************************)
(* Properties of the melt                                                  *)
(***************************************************************************)
Emitted == pc = "written"

\* the period of a long record: year for extract_imp_tfw, else year_month
Period(rec) == IF ds = "imp_tfw" THEN rec.year ELSE rec.year_month

SamePair(a, b) == a.labels = b.labels /\ Period(a) = Period(b)

\* the labels wide row r carries in the output
OutLabels(r) == LongLabels(ds, wide.labels[r])

\* how many long records carry labels lab, period key and value v
CountRecords(lab, key, v) ==
    Cardinality({p \in 1..Len(csv.rows) :
                    /\ csv.rows[p].labels = lab
                    /\ Period(csv.rows[p]) = key
                    /\ csv.rows[p].value = v})

\* how many wide rows carry labels lab and value v under column c
CountCells(lab, c, v) ==
    Cardinality({r \in 1..Len(wide.labels) : OutLabels(r) = lab /\ wide.vals[r][c] = v})

MeltCount == Len(csv.rows) = Len(wide.labels) * Len(wide.keys)

\* the long table holds the record of every cell as often as the wide table
\* holds the cell: nothing dropped, nothing doubled, zeros included
OnePerCell ==
    \A r \in 1..Len(wide.labels) :
    \A c \in 1..Len(wide.keys) :
        CountRecords(OutLabels(r), wide.keys[c], wide.vals[r][c])
            = CountCells(OutLabels(r), c, wide.vals[r][c])

NoSharedPair ==
    \A p \in 1..Len(csv.rows) :
    \A q \in 1..Len(csv.rows) :
        p # q => ~SamePair(csv.rows[p], csv.rows[q])

\* a (labels, period) pair occurs once for each wide row with these labels
PairsOnlyFromEqualRows ==
    \A p \in 1..Len(csv.rows) :
        Cardinality({q \in 1..Len(csv.rows) : SamePair(csv.rows[p], csv.rows[q])})
            = Cardinality({r \in 1..Len(wide.labels) : OutLabels(r) = csv.rows[p].labels})

\* C5 as claimed: the long table has rows x columns records, one per (wide
\* row, canonical column), zeros kept, and no two of them share the same
\* (hierarchy labels, period) pair
C5_MeltCompleteNoSharedPair ==
    Emitted => MeltCount /\ OnePerCell /\ NoSharedPair

\* C5 amended: the long table has rows x columns records, one per (wide row,
\* canonical column), zeros kept; two records share a (hierarchy labels,
\* period) pair only when they come from different wide rows that carry the
\* same labels in the output
C5_MeltCompletePairsFromEqualRows ==
    Emitted => MeltCount /\ OnePerCell /\ PairsOnlyFromEqualRows

\* C5 witness: a three-row table is written whole, a record of value 0 among
\* its records
C5_ZeroRecordWritten ==
    /\ Emitted
    /\ Len(wide.labels) = 3
    /\ Len(csv.rows) = 3 * Len(wide.keys)
    /\ \E p \in 1..Len(csv.rows) : csv.rows[p].value = 0

\* the sheet of the three-row fragment, read by extract_pr
IsFragment ==
    /\ ds = "pr"
    /\ raw = FragmentSheet("pr", 1, <<<<L_Ontario, Int0(10), Int0(20)>>,
                                      <<L_Quebec, L_dashes, L_empty>>,
                                      <<L_Total, Int0(15), Int0(25)>>>>)

LongValues == [p \in 1..Len(csv.rows) |-> csv.rows[p].value]
LongFlags == [p \in 1..Len(csv.rows) |-> csv.rows[p].total_flag]

\* C8 as claimed: the fragment yields total_flag False, False, True for its
\* rows and the long values 10, 20, 2, 0, 15, 25 in that order
C8_FragmentRowByRow ==
    (Emitted /\ IsFragment) =>
        /\ wide.flags = <<FALSE, FALSE, TRUE>>
        /\ LongValues = <<10, 20, 2, 0, 15, 25>>

\* C8 amended: the fragment is processed without error and yields
\* total_flag False, False, True for its rows and the long values column by
\* column, 10, 2, 15, 20, 0, 25, each record with the flag of its row
C8_FragmentColumnByColumn ==
    IsFragment =>
        /\ pc # "failed"
        /\ Emitted =>
            /\ wide.keys = <<<<"2","0","2","0","-","0","1">>, <<"2","0","2","0","-","0","2">>>>
            /\ wide.flags = <<FALSE, FALSE, TRUE>>
            /\ LongValues = <<10, 2, 15, 20, 0, 25>>
            /\ LongFlags = <<FALSE, FALSE, TRUE, FALSE, FALSE, TRUE>>

\* C8 witness: the fragment has been written, six records long
C8_FragmentWritten ==
    /\ Emitted
    /\ IsFragment
    /\ Len(csv.rows) = 6
    /\ csv.rows[6].value = 25


(***************************************************************************)
(* Sheets whose header varies: the title rows above the year row, the      *)
(* number of label columns, and the year cell and the month cell over the  *)
(* second value column.                                                    *)
(***************************************************************************)
MaxLabelCols == 5

L_2021x == Str(<<"2", "0", "2", "1", "x">>)

AxisYearCells ==
    {NaN, Int0(2020), Int0(2021), Int0(12345), Int0(0 - 5), Int0(7), L_2021x, L_na}

L_Feb_padded == Str(<<" ", "F", "e", "b", " ">>)
L_feb == Str(<<"f", "e", "b">>)

AxisMonthCells(d) ==
    IF d = "imp_tfw" THEN {L_Jan} ELSE {L_Jan, L_Feb, L_Q1, L_Feb_padded, L_feb}

AxisYears(d, y2) ==
    IF d = "imp_tfw"
    THEN <<Int0(2020), y2, Int0(2021), Int0(2022), Int0(2023), Int0(2024),
           Int0(2025), L_Q1>>
    ELSE <<Int0(2020), y2, Int0(2021), NaN, Int0(2022), Int0(2023), Int0(2024), NaN>>

AxisMonths(m2) == <<L_Jan, m2, L_Jan, L_Feb, L_Q1, L_Mar, L_Apr, L_May>>

\* the scan budget of the header locator of extractor d
MaxScanRows(d) ==
    IF d = "study" THEN MaxScanRowsStudy
    ELSE IF d = "asylum" THEN MaxScanRowsAsylum
    ELSE IF d = "imp_tfw" THEN MaxScanRowsImp
    ELSE MaxScanRowsPr

\* title rows: none, as many as leave the year row last in the budget, and
\* as many as push it out of the budget
LeadChoices(d) == IF d = "hc" THEN {0} ELSE {0, MaxScanRows(d) - 1, MaxScanRows(d)}

AxisLabelCols(d) ==
    IF d = "hc" THEN {1} ELSE IF d = "study" THEN {2} ELSE 0..MaxLabelCols

\* a detail row and the grand total row
AxisLabelRows(h) ==
    <<[j \in 1..h |-> IF j = 1 THEN L_A ELSE IF j % 2 = 0 THEN L_x ELSE L_p],
      [j \in 1..h |-> IF j = 1 THEN L_Total ELSE NaN]>>

AxisSheet(d, lead, h, y2, m2) ==
    [i \in 1..lead |-> Blanks(h + Len(AxisMonths(m2)))]
        \o Sheet(d, h, AxisYears(d, y2), AxisMonths(m2), AxisLabelRows(h),
                 PlainValues(2, Len(AxisMonths(m2))))

InitAxis ==
    \E d \in {"pr", "imp_tfw", "study", "asylum", "hc"} :
    \E lead \in LeadChoices(d) :
    \E h \in AxisLabelCols(d) :
    \E y2 \in AxisYearCells :
    \E m2 \in AxisMonthCells(d) :
        Start(d, AxisSheet(d, lead, h, y2, m2), TRUE, TRUE)

SpecAxis == InitAxis /\ [][Next]_vars

(***************************************************************************)
(* Properties of the header locator and the axis builder                   *)
(***************************************************************************)
NoAxis == [ok |-> FALSE]

AxisFrom(yr, mr, first) ==
    [ok |-> TRUE, year_row |-> yr, month_row |-> mr, first_data_col |-> first]

PrAxis(g, det) ==
    IF det.ok /\ det.month_row < NRows(g)
              /\ det.first_data_col >= MinHier /\ det.first_data_col <= MaxHier
    THEN AxisFrom(det.year_row, det.month_row, det.first_data_col)
    ELSE NoAxis

AsylumAxis(g, det) ==
    IF det.ok /\ det.month_row < NRows(g)
    THEN AxisFrom(det.year_row, det.month_row, AsylumFirstCol(det.first_data_col))
    ELSE NoAxis

StudyAxis(det) ==
    IF det.ok THEN AxisFrom(det.year_row, det.month_row, 2) ELSE NoAxis

HcAxis(g) ==
    IF NRows(g) > HcMonthRow THEN AxisFrom(HcYearRow, HcMonthRow, 1) ELSE NoAxis

\* the rows and the first column the axis builder of a monthly extractor
\* works on, where the run gets as far as the builder
MonthlyAxis(d, g) ==
    IF d = "pr" THEN PrAxis(g, detect_header_structure(g))
    ELSE IF d = "asylum" THEN AsylumAxis(g, detect_header_structure_asylum(g))
    ELSE IF d = "study" THEN StudyAxis(detect_year_and_month_rows(g))
    ELSE IF d = "hc" THEN HcAxis(g)
    ELSE NoAxis

\* the source columns the builder keeps
KeptAt(g, a) ==
    IF a.ok THEN KeptCols(g, a.year_row, a.month_row, a.first_data_col) ELSE <<>>

ImpYears(det) ==
    IF det.ok /\ det.first_data_col >= MinHier /\ det.first_data_col <= MaxHier
    THEN det.years
    ELSE <<>>

MonthlyKeys(g, a) == KeysOf(g, a.year_row, a.month_row, KeptAt(g, a))

\* the keys the builder emits, in column order; none where it does not run
BuilderKeys(d, g) ==
    IF d = "imp_tfw" THEN ImpYears(detect_header_and_year_start(g))
    ELSE MonthlyKeys(g, MonthlyAxis(d, g))

ColYear(g, a, c) == YearOf(YearFfill(g, a.year_row, c))
ColMonth(g, a, c) == MonthIndex(Cell(g, a.month_row, c))

\* four digits, a hyphen, two digits in 01..12
IsYearMonthKey(k) ==
    /\ Len(k) = 7
    /\ \A i \in {1, 2, 3, 4, 6, 7} : IsDigit(k[i])
    /\ k[5] = "-"
    /\ DigitsToNat(SubSeq(k, 6, 7)) >= 1
    /\ DigitsToNat(SubSeq(k, 6, 7)) <= 12

KeysWellFormed(keys) == \A i \in 1..Len(keys) : IsYearMonthKey(keys[i])

FourDigitYearKeysWellFormed(g, a, kc) ==
    \A i \in 1..Len(kc) :
        (ColYear(g, a, kc[i]) >= 0 /\ ColYear(g, a, kc[i]) <= 9999)
            => IsYearMonthKey(ColKey(g, a.year_row, a.month_row, kc[i]))

\* every long record carries the year and the month of the source column
\* its key was built from
SplitRoundTrip(g, a, kc, rows) ==
    \A p \in 1..Len(rows) :
    \E i \in 1..Len(kc) :
        /\ rows[p].year_month = ColKey(g, a.year_row, a.month_row, kc[i])
        /\ rows[p].year = ColYear(g, a, kc[i])
        /\ rows[p].month = ColMonth(g, a, kc[i])

NegativeYearKept(g, a, kc) == \E i \in 1..Len(kc) : ColYear(g, a, kc[i]) < 0

HasMelted == pc \in {"melted", "written"}

RoundTripClaimed(g, a) ==
    /\ KeysWellFormed(MonthlyKeys(g, a))
    /\ HasMelted => SplitRoundTrip(g, a, KeptAt(g, a), long)

\* C6 as claimed: every key the axis builder of a monthly extractor emits
\* is four digits, a hyphen and two digits in 01..12, whatever year cell
\* the builder accepts, and the emitter's split gives back the year of the
\* forward-filled year cell and the number of the month
C6_EveryKeyFourDigitYear ==
    (ds # "imp_tfw" /\ pc # "start") => RoundTripClaimed(raw, MonthlyAxis(ds, raw))

RoundTripAmended(g, a, kc) ==
    /\ FourDigitYearKeysWellFormed(g, a, kc)
    /\ HasMelted => SplitRoundTrip(g, a, kc, long)
    /\ NegativeYearKept(g, a, kc) => (~HasMelted /\ csv = NoFile)

RoundTripFrom(g, a) == RoundTripAmended(g, a, KeptAt(g, a))

\* C6 amended: a key built from a year in 0..9999 is four digits, a hyphen
\* and two digits in 01..12; whenever the emitter's split succeeds it gives
\* back the year of the forward-filled year cell and the number of the
\* month; a negative year makes the split fail, and nothing is written
C6_KeyOfYearBelowTenThousand ==
    (ds # "imp_tfw" /\ pc # "start") => RoundTripFrom(raw, MonthlyAxis(ds, raw))

FilledYearWritten(g, a, kc) ==
    \E i \in 1..Len(kc) :
        /\ IsNa(Cell(g, a.year_row, kc[i]))
        /\ ColYear(g, a, kc[i]) = 2020
        /\ \E p \in 1..Len(csv.rows) :
              /\ csv.rows[p].year_month = ColKey(g, a.year_row, a.month_row, kc[i])
              /\ csv.rows[p].year = 2020
              /\ csv.rows[p].month = 2

FilledYearWrittenFrom(g, a) == FilledYearWritten(g, a, KeptAt(g, a))

\* C6 witness: a record of February 2020 is written whose column has a
\* blank year cell, filled from the cell to its left
C6_FilledYearSplitBack ==
    /\ pc = "written"
    /\ ds # "imp_tfw"
    /\ FilledYearWrittenFrom(raw, MonthlyAxis(ds, raw))

\* C7 as claimed: the keys the axis builder emits are pairwise distinct for
\* every header the locator accepts
C7_BuilderKeysDistinct == pc # "start" => ~HasDuplicates(BuilderKeys(ds, raw))

NotPastParsing == pc \in {"start", "failed"}

DuplicateKeysEndRun(keys) ==
    HasDuplicates(keys) =>
        /\ NotPastParsing
        /\ pc = "failed" => err = "AttributeError"
        /\ wide = NoTable
        /\ csv = NoFile

\* C7 amended: the keys of every wide table that parsing hands on are
\* pairwise distinct; when two kept columns of an accepted header give the
\* same key, the builder emits it twice, numeric cleaning fails on it and
\* the run ends with no table and no output
C7_HandedOnKeysDistinct ==
    /\ ~NotPastParsing => ~HasDuplicates(wide.keys)
    /\ DuplicateKeysEndRun(BuilderKeys(ds, raw))

\* C7 witness: a run has ended in numeric cleaning on a header that gives
\* one key twice
C7_DuplicateKeyEndedRun ==
    /\ pc = "failed"
    /\ err = "AttributeError"
    /\ HasDuplicates(BuilderKeys(ds, raw))

ScannedRows(d, g) == 0..(Min2(MaxScanRows(d), NRows(g)) - 1)

NoYearRow(d, g) ==
    IF d = "study" THEN \A r \in ScannedRows(d, g) : YearLikeCount(g, r) < MinYearsStudy
    ELSE IF d = "asylum"
    THEN \A r \in ScannedRows(d, g) : Cardinality(YearCols(g, r)) < MinYearsAsylum
    ELSE IF d = "imp_tfw"
    THEN \A r \in ScannedRows(d, g) :
         \A st \in FirstStartImp..(Min2(MaxFirstCols, NCols(g) - 5) - 1) :
             Len(YearRun(g, r, st)) < MinYearsImp
    ELSE \A r \in ScannedRows(d, g) : Cardinality(YearCols(g, r)) < MinYearsPr

\* extract_study: no month row in the budget below the first year row
NoMonthRowBelow(g, yc) ==
    \A r \in ScannedRows("study", g) :
        r > MinOf(yc) => MonthLikeCount(g, r) < MinMonthsStudy

NoStudyMonthRow(g, yc) == yc # {} /\ NoMonthRowBelow(g, yc)

NoHeaderInBudget(d, g) ==
    /\ d # "hc"
    /\ \/ NoYearRow(d, g)
       \/ d = "study" /\ NoStudyMonthRow(g, {r \in ScannedRows(d, g) :
                                               YearLikeCount(g, r) >= MinYearsStudy})

\* C9: when no row in the scan budget meets the year-row criterion (in
\* extract_study, also when no later row in the budget meets the month-row
\* criterion) the run ends at the header locator with its error: no wide
\* table, no long records, no CSV
C9_HeaderNotFoundEndsRun ==
    NoHeaderInBudget(ds, raw) =>
        /\ NotPastParsing
        /\ pc = "failed" => err = "HeaderNotFound"
        /\ wide = NoTable
        /\ long = <<>>
        /\ csv = NoFile

\* C9 witness: extract_study has ended with the locator's error on a sheet
\* whose year row is in the budget and whose month row is not
C9_StudyMonthRowOutOfBudget ==
    /\ ds = "study"
    /\ pc = "failed"
    /\ err = "HeaderNotFound"
    /\ ~NoYearRow(ds, raw)
    /\ NoHeaderInBudget(ds, raw)

DepthRejected ==
    /\ NotPastParsing
    /\ pc = "failed" => err = "UnexpectedHierarchyDepth"
    /\ wide = NoTable
    /\ long = <<>>
    /\ csv = NoFile

DepthNamed(n) ==
    ~NotPastParsing =>
        wide.hcols = SubSeq(<<"province_territory", "category_1", "category_2",
                              "category_3">>, 1, n)

DepthChecked(n) == IF n < 1 \/ n > 4 THEN DepthRejected ELSE DepthNamed(n)

PrDepthChecked(g, det) ==
    (det.ok /\ det.month_row < NRows(g)) => DepthChecked(det.first_data_col)

ImpDepthChecked(det) == det.ok => DepthChecked(det.first_data_col)

AsylumDepthForced(g, det) ==
    (det.ok /\ det.month_row < NRows(g) /\ det.first_data_col < 2) =>
        /\ err # "UnexpectedHierarchyDepth"
        /\ ~NotPastParsing =>
            /\ wide.hcols = <<"claim_office_type", "province_territory">>
            /\ wide.keys = AxisKeys(g, det.year_row, det.month_row, 2)

\* C10: in extract_pr and extract_imp_tfw a column count below 1 or above 4
\* ends the run with the depth error before there is a wide table, a long
\* record or a CSV, and a count in 1..4 names the columns by the first
\* count names; extract_asylum takes a count below 2 as 2 and goes on
C10_DepthCheckedBeforeCleaning ==
    IF ds = "pr" THEN PrDepthChecked(raw, detect_header_structure(raw))
    ELSE IF ds = "imp_tfw" THEN ImpDepthChecked(detect_header_and_year_start(raw))
    ELSE IF ds = "asylum"
    THEN AsylumDepthForced(raw, detect_header_structure_asylum(raw))
    ELSE TRUE

PrDepthAbove(det, n) == det.ok /\ det.first_data_col > n

\* C10 witness: extract_pr has ended with the depth error on a sheet with
\* five label columns
C10_FiveColumnsRejected ==
    /\ ds = "pr"
    /\ pc = "failed"
    /\ err = "UnexpectedHierarchyDepth"
    /\ PrDepthAbove(detect_header_structure(raw), 4)

(***************************************************************************)
(* Runs over sheets with a footer: two label columns, and in every value   *)
(* cell of a data row the number of that row, so that a row of the wide    *)
(* table names the sheet row it came from                                  *)
(***************************************************************************)
MaxFooterRows == 3

L_Total_dash == Str(<<"T","o","t","a","l"," ","-">>)

FooterLevel0 == {NaN, L_A, L_Total, L_total_padded, L_Total_dash}
FooterLabelRows == {<<a, L_x>> : a \in FooterLevel0}

\* value cells i, i, ... in data row i
RowNumberValues(n, nv) == [i \in 1..n |-> [j \in 1..nv |-> Int0(i)]]

FooterSheet(d, labs) ==
    Sheet(d, 2, HeaderYears(d), HeaderMonths(d), labs,
          RowNumberValues(Len(labs), Len(HeaderYears(d))))

InitFooter ==
    \E d \in {"pr", "imp_tfw", "study", "asylum"} :
    \E labs \in SeqsUpTo(FooterLabelRows, 1, MaxFooterRows) :
    \E trim \in (IF d = "imp_tfw" THEN BOOLEAN ELSE {TRUE}) :
        Start(d, FooterSheet(d, labs), trim, TRUE)

SpecFooter == InitFooter /\ [][Next]_vars

(***************************************************************************)
(* Properties of the footer trim                                           *)
(***************************************************************************)
\* the sheet's data rows, numbered from 1, and their label cells
FirstDataRow(d) == Len(HeaderBlock(d, 2, HeaderYears(d), HeaderMonths(d)))
SheetDataRows(d, g) == NRows(g) - FirstDataRow(d)
SheetLabels(d, g) ==
    [i \in 1..SheetDataRows(d, g) |-> RowCells(g, FirstDataRow(d) + i - 1, <<0, 1>>)]

\* the shallowest label of data row i as the trim reads it: cleaned in
\* extract_pr, extract_imp_tfw and extract_study, filled from below in
\* extract_asylum
TrimLabel(d, labels, i) ==
    IF d = "asylum" THEN AsylumOfficeType(labels, i)
    ELSE clean_province_territory_value(d, labels[i][1])

\* rows the "stray empties/headers" filters take out after the trim
StrayLabel(d, x) ==
    IF d = "pr"
    THEN \/ x.k = "str" /\ x.s \in StrayTexts
         \/ NormLabel(x) \in {T_province, T_territory}
    ELSE IF d = "asylum" THEN AsStr(x) \in StrayTexts
    ELSE FALSE

\* the sheet rows the wide table w holds
TableRows(w) == {w.vals[r][1] : r \in 1..Len(w.vals)}

\* the table holds row last and no row below it
CutAfter(w, last) ==
    /\ last \in TableRows(w)
    /\ \A i \in TableRows(w) : i <= last

\* every row that is not a stray row is in the table
NothingTrimmed(d, w, labels) ==
    \A i \in 1..Len(labels) :
        ~StrayLabel(d, TrimLabel(d, labels, i)) => i \in TableRows(w)

TrimmedAt(d, w, labels, tot) ==
    IF tot # {} THEN CutAfter(w, MaxOf(tot)) ELSE NothingTrimmed(d, w, labels)

SheetTotals(labels) == {i \in 1..Len(labels) : IsTotalLabel(labels[i][1])}
TrimTotals(d, labels) ==
    {i \in 1..Len(labels) : IsTotalLabel(TrimLabel(d, labels, i))}

DesiredColumns == <<"stream", "year", "value", "total_flag">>

HasColumn(f, c) == \E j \in 1..Len(f.columns) : f.columns[j] = c

\* df["year_month"].str[:4].astype(int)
YearFromKey(key) == IntOf(SubSeq(key, 1, Min2(4, Len(key))))
DefaultYear == 2023

\* the defaults for a desired column the CSV lacks
SubsetYear(f, r) ==
    IF HasColumn(f, "year") THEN r.year
    ELSE IF HasColumn(f, "year_month") THEN YearFromKey(r.year_month)
    ELSE DefaultYear
SubsetValue(f, r) == IF HasColumn(f, "value") THEN r.value ELSE 0
SubsetFlag(f, r) == IF HasColumn(f, "total_flag") THEN r.total_flag ELSE FALSE

\* df_subset: the desired columns of the CSV f of stream s
SubsetRow(s, f, r) ==
    [stream |-> s, year |-> SubsetYear(f, r), value |-> SubsetValue(f, r),
     total_flag |-> SubsetFlag(f, r)]
SubsetTable(s, f) ==
    SubSeq([i \in 1..Len(f.rows) |-> SubsetRow(s, f, f.rows[i])], 1, Len(f.rows))

\* pd.concat(subset_tables, ignore_index=True)
RECURSIVE Concat(_)
Concat(tables) ==
    IF tables = <<>> THEN <<>> ELSE Head(tables) \o Concat(Tail(tables))

\* the combined table handed on with its total rows
filtered_rows_keeps_totals(combined) == combined

\* combined_table[~combined_table['total_flag']]
filtered_rows(combined) == SelectSeq(combined, LAMBDA r : ~r.total_flag)

RECURSIVE SumValues(_)
SumValues(rows) ==
    IF rows = <<>> THEN 0 ELSE Head(rows).value + SumValues(Tail(rows))

\* the order of sort_values(['stream', 'year']): stream names as text
SortedStreams == <<"asylum", "hc", "imp", "pr", "study", "tfw">>
StreamRank(s) == CHOOSE i \in 1..Len(SortedStreams) : SortedStreams[i] = s
KeyBefore(a, b) ==
    \/ StreamRank(a[1]) < StreamRank(b[1])
    \/ a[1] = b[1] /\ a[2] < b[2]

RECURSIVE SortKeys(_)
SortKeys(K) ==
    IF K = {} THEN <<>>
    ELSE LET m == CHOOSE k \in K : \A o \in K \ {k} : KeyBefore(k, o)
         IN  <<m>> \o SortKeys(K \ {m})

GroupKeys(rows) == {<<rows[i].stream, rows[i].year>> : i \in 1..Len(rows)}
GroupValue(rows, s, y) ==
    SumValues(SelectSeq(rows, LAMBDA r : r.stream = s /\ r.year = y))
GroupRowsAt(rows, ks) ==
    [i \in 1..Len(ks) |->
        [stream |-> ks[i][1], year |-> ks[i][2],
         value |-> GroupValue(rows, ks[i][1], ks[i][2])]]

\* filtered_rows.groupby(['stream', 'year'])['value'].sum(), sorted
grouped_rows(rows) == GroupRowsAt(rows, SortKeys(GroupKeys(rows)))

\* one turn of the loop over source_files: a missing file is skipped
LoadFile ==
    /\ agg_pc = "load"
    /\ agg_i <= Len(SourceFiles)
    /\ subset_tables' =
          IF files[SourceFiles[agg_i]] = NoFile THEN subset_tables
          ELSE Append(subset_tables,
                      SubsetTable(SourceFiles[agg_i], files[SourceFiles[agg_i]]))
    /\ agg_i' = agg_i + 1
    /\ UNCHANGED <<extractor, builder, files, agg_pc, agg_csv>>

\* "No data files found": main returns, nothing is written
NoData ==
    /\ agg_pc = "load"
    /\ agg_i > Len(SourceFiles)
    /\ subset_tables = <<>>
    /\ agg_pc' = "no_data"
    /\ UNCHANGED <<extractor, builder, files, agg_i, subset_tables, agg_csv>>

\* concat, filter, group, sort, to_csv
Combine ==
    /\ agg_pc = "load"
    /\ agg_i > Len(SourceFiles)
    /\ subset_tables # <<>>
    /\ agg_csv' = [columns |-> <<"stream", "year", "value">>,
                   rows |-> grouped_rows(filtered_rows(Concat(subset_tables)))]
    /\ agg_pc' = "done"
    /\ UNCHANGED <<extractor, builder, files, agg_i, subset_tables>>

\* a CSV without rows is read with a total_flag column of dtype object; what
\* dtype the combined column then has, and so whether ~ is the boolean
\* negation or raises in the indexing, depends on the pandas at hand
CombineRaises ==
    /\ agg_pc = "load"
    /\ agg_i > Len(SourceFiles)
    /\ \E i \in 1..Len(subset_tables) : subset_tables[i] = <<>>
    /\ agg_pc' = "failed"
    /\ UNCHANGED <<extractor, builder, files, agg_i, subset_tables, agg_csv>>

NextAgg == LoadFile \/ NoData \/ Combine \/ CombineRaises

(***************************************************************************)
(* Runs of extracted_agg over a directory of CSVs                          *)
(***************************************************************************)
MaxCsvRows == 2

ExtractorIdle ==
    /\ ds = "pr"
    /\ raw = <<>>
    /\ trim_bottom = TRUE
    /\ nanEq = TRUE
    /\ pc = "idle"
    /\ wide = NoTable
    /\ long = <<>>
    /\ csv = NoFile
    /\ err = "none"

AggYears == {2020, 2021}
AggValues == {1, 2}

\* a record of a monthly extractor for January of year y
MonthlyRow(flag, y, v) ==
    [labels |-> <<L_A>>, total_flag |-> flag, year_month |-> YearMonthKey(y, 1),
     year |-> y, month |-> 1, value |-> v]
\* a record of extract_hc: no total_flag
HcRow(y, v) ==
    [labels |-> <<L_A>>, year_month |-> YearMonthKey(y, 1), year |-> y,
     month |-> 1, value |-> v]
\* a record of extract_imp_tfw
YearlyRow(flag, y, v) ==
    [labels |-> <<L_A, L_x>>, total_flag |-> flag, year |-> y, value |-> v]

MonthlyColumns(hcols) ==
    hcols \o <<"total_flag", "year_month", "year", "month", "value">>
YearlyColumns == <<"province_territory", "category_1", "total_flag", "year", "value">>
HcColumns == <<"country_citizenship", "year_month", "year", "month", "value">>

PrCsvs ==
    {[columns |-> MonthlyColumns(<<"province_territory">>), rows |-> rs] :
        rs \in SeqsUpTo({MonthlyRow(b, y, v) : b \in BOOLEAN, y \in AggYears,
                                               v \in AggValues},
                        1, MaxCsvRows)}
HcCsv ==
    [columns |-> HcColumns, rows |-> <<HcRow(2020, 3), HcRow(2020, 4), HcRow(2021, 5)>>]
\* extract_imp_tfw writes a CSV without rows for a sheet without data rows
TfwCsvs ==
    {[columns |-> YearlyColumns, rows |-> <<>>],
     [columns |-> YearlyColumns,
      rows |-> <<YearlyRow(FALSE, 2020, 6), YearlyRow(FALSE, 2021, 7),
                 YearlyRow(TRUE, 2020, 6), YearlyRow(TRUE, 2021, 7)>>]}
OtherCsv(s) ==
    IF s = "imp"
    THEN [columns |-> YearlyColumns,
          rows |-> <<YearlyRow(FALSE, 2021, 8), YearlyRow(TRUE, 2021, 8)>>]
    ELSE [columns |-> MonthlyColumns(<<"province_territory">>),
          rows |-> <<MonthlyRow(TRUE, 2020, 9), MonthlyRow(FALSE, 2020, 9)>>]

InitAgg ==
    /\ ExtractorIdle
    /\ \E present \in SUBSET {"pr", "hc", "tfw", "others"} :
       \E p \in PrCsvs : \E w \in TfwCsvs :
          files = [s \in {SourceFiles[i] : i \in 1..Len(SourceFiles)} |->
                      IF s = "pr" THEN (IF s \in present THEN p ELSE NoFile)
                      ELSE IF s = "hc" THEN (IF s \in present THEN HcCsv ELSE NoFile)
                      ELSE IF s = "tfw" THEN (IF s \in present THEN w ELSE NoFile)
                      ELSE IF "others" \in present THEN OtherCsv(s) ELSE NoFile]
    /\ agg_pc = "load"
    /\ agg_i = 1
    /\ subset_tables = <<>>
    /\ agg_csv = NoFile
    /\ BuilderIdle

SpecAgg == InitAgg /\ [][NextAgg]_vars

(***************************************************************************)
(* Properties of the cross-stream aggregator                               *)
(***************************************************************************)
\* row r of the CSV f is a detail row: its total_flag is False, or the CSV
\* has no total_flag column
Contributes(f, r) == IF HasColumn(f, "total_flag") THEN ~r.total_flag ELSE TRUE

\* the sum of value over the detail rows of year y among the first n rows
RECURSIVE SumDetail(_, _, _)
SumDetail(f, y, n) ==
    IF n = 0 THEN 0
    ELSE SumDetail(f, y, n - 1)
         + (IF f.rows[n].year = y /\ Contributes(f, f.rows[n])
            THEN f.rows[n].value ELSE 0)

HasDetail(f, y) ==
    \E i \in 1..Len(f.rows) : f.rows[i].year = y /\ Contributes(f, f.rows[i])

\* the output row o is the sum of the detail rows of its stream and year
SumOfDetail(dir, o) ==
    /\ dir[o.stream] # NoFile
    /\ HasDetail(dir[o.stream], o.year)
    /\ o.value = SumDetail(dir[o.stream], o.year, Len(dir[o.stream].rows))

\* every detail row of every CSV has its (stream, year) in the output
NoDetailLeftOut(dir, out) ==
    \A s \in DOMAIN dir :
        dir[s] # NoFile =>
            \A i \in 1..Len(dir[s].rows) :
                Contributes(dir[s], dir[s].rows[i]) =>
                    \E p \in 1..Len(out) :
                        out[p].stream = s /\ out[p].year = dir[s].rows[i].year

OnePerPair(out) ==
    \A p, q \in 1..Len(out) :
        (out[p].stream = out[q].stream /\ out[p].year = out[q].year) => p = q

\* C12: when extracted_agg has written its output, each output row carries
\* the sum of value over exactly the rows of its stream's CSV with its year
\* and total_flag False (all rows of that year for a CSV without the
\* column), every detail row is counted under its pair, each pair has one
\* output row, and a missing CSV changes nothing for the streams present
C12_SumOverDetailRows ==
    agg_pc = "done" =>
        /\ \A p \in 1..Len(agg_csv.rows) : SumOfDetail(files, agg_csv.rows[p])
        /\ NoDetailLeftOut(files, agg_csv.rows)
        /\ OnePerPair(agg_csv.rows)

\* C12 witness: the output is written with one stream's CSV missing, the pr
\* CSV holding a total row and a detail row of the same year, and the hc
\* CSV (no total_flag column) summed over all its rows of 2020
C12_TotalRowLeftOutOfSum ==
    /\ agg_pc = "done"
    /\ files["tfw"] = NoFile
    /\ files["pr"] # NoFile
    /\ \E i, j \in 1..Len(files["pr"].rows) :
          /\ files["pr"].rows[i].total_flag
          /\ ~files["pr"].rows[j].total_flag
          /\ files["pr"].rows[i].year = files["pr"].rows[j].year
    /\ \E p \in 1..Len(agg_csv.rows) :
          /\ agg_csv.rows[p].stream = "hc"
          /\ agg_csv.rows[p].year = 2020
          /\ agg_csv.rows[p].value = 7

(***************************************************************************)
(* The Sankey builders: sankey_pr_data, sankey_tfw_data, sankey_asylum_data *)
(* and sankey_study_data.  A builder is named by the extractor whose CSV   *)
(* it reads (sankey_tfw_data reads the CSV extract_imp_tfw writes).        *)
(***************************************************************************)
SankeyBuilders == {"pr", "imp_tfw", "asylum", "study"}

\* the node levels below the root, by column name
LevelCols(d) ==
    IF d = "pr" THEN <<"category_1", "category_2", "category_3">>
    ELSE IF d = "imp_tfw" THEN <<"category_1", "category_2">>
    ELSE IF d = "asylum" THEN <<"claim_office_type">>
    ELSE <<"study_level">>

ColIndex(cols, c) ==
    IF \E j \in 1..Len(cols) : cols[j] = c
    THEN CHOOSE j \in 1..Len(cols) : cols[j] = c
    ELSE 0

\* the column names of the labels of a record, in the order of the record
RecordLabelCols(d, f) ==
    IF d = "asylum" THEN <<"claim_office_type", "province_territory">>
    ELSE SubSeq(f.columns, 1, ColIndex(f.columns, "total_flag") - 1)

\* pd.read_csv: an empty field and the default NA texts are read as NaN
CsvNaTexts == {<<>>, T_nan, T_NaN, T_None, <<"n","/","a">>}
ReadCsvText(x) == IF IsNa(x) \/ AsStr(x) \in CsvNaTexts THEN NaN ELSE Str(AsStr(x))

\* df[c].astype(str).str.strip(), then "", "nan", "NaN" set to NaN
NormalizeText(x) ==
    IF Strip(AsStr(x)) \in {<<>>, T_nan, T_NaN} THEN NaN ELSE Str(Strip(AsStr(x)))

SankeyLabel(d, f, r, c) ==
    NormalizeText(ReadCsvText(r.labels[ColIndex(RecordLabelCols(d, f), c)]))

T_asylum_not_stated == <<"P", "r", "o", "v", "i", "n", "c", "e", "/", "T", "e", "r", "r", "i", "t", "o", "r", "y", " ", "o", "f", " ", "c", "l", "a", "i", "m", " ", "n", "o", "t", " ", "s", "t", "a", "t", "e", "d">>
T_study_not_stated == <<"P", "r", "o", "v", "i", "n", "c", "e", "/", "T", "e", "r", "r", "i", "t", "o", "r", "y", " ", "n", "o", "t", " ", "s", "t", "a", "t", "e", "d">>

\* no fillna: a blank province_territory stays NaN in every builder
FillProvince_leaves_blank(d, x) == x

\* long_df["province_territory"].fillna(...) in sankey_asylum_data and
\* sankey_study_data; sankey_pr_data and sankey_tfw_data leave NaN
FillProvince(d, x) ==
    IF NotNa(x) THEN x
    ELSE IF d = "asylum" THEN Str(T_asylum_not_stated)
    ELSE IF d = "study" THEN Str(T_study_not_stated)
    ELSE x

\* the hardcoded fix of sankey_pr_data and sankey_tfw_data: category_1 is
\* "Not stated" where the province contains "not stated"
SankeyRewrite(d, prov, lev) ==
    IF d \in {"pr", "imp_tfw"} /\ NotNa(prov) /\ ContainsNoCase(AsStr(prov), T_not_stated)
    THEN [lev EXCEPT ![1] = Str(T_Not_stated)]
    ELSE lev

LevelLabels(d, f, r) ==
    SubSeq([k \in 1..Len(LevelCols(d)) |-> SankeyLabel(d, f, r, LevelCols(d)[k])],
           1, Len(LevelCols(d)))

LongRowOf(d, prov, lev, r) ==
    [prov |-> FillProvince(d, prov), lev |-> SankeyRewrite(d, prov, lev),
     year |-> r.year, value |-> r.value]
LongRow(d, f, r) ==
    LongRowOf(d, SankeyLabel(d, f, r, "province_territory"), LevelLabels(d, f, r), r)

\* df.loc[~df["total_flag"].astype(bool)], then long_df["value"] != 0
DetailRecords(f) == SelectSeq(f.rows, LAMBDA r : ~r.total_flag /\ r.value # 0)
LongDf(d, f) ==
    SubSeq([i \in 1..Len(DetailRecords(f)) |-> LongRow(d, f, DetailRecords(f)[i])],
           1, Len(DetailRecords(f)))

Root == "root"

\* the rows behind the links into level k: dropna on the level columns, and
\* groupby (dropna=True) leaves out the rows whose province is NaN
LinkRows(ldf, k) ==
    SelectSeq(ldf, LAMBDA r : /\ NotNa(r.prov)
                              /\ NotNa(r.lev[k])
                              /\ (k = 1 \/ NotNa(r.lev[k - 1])))
LinkSource(r, k) == IF k = 1 THEN Root ELSE r.lev[k - 1]
SameLink(r, q, k) ==
    /\ r.prov = q.prov /\ r.year = q.year
    /\ LinkSource(r, k) = LinkSource(q, k) /\ r.lev[k] = q.lev[k]

\* groupby([...])["value"].sum(): one link per key, holding the sum
LinkOf(rows, r, k) ==
    [prov |-> r.prov, year |-> r.year, source |-> LinkSource(r, k),
     target |-> r.lev[k],
     value |-> SumValues(SelectSeq(rows, LAMBDA q : SameLink(r, q, k)))]
LinksFrom(rows, k) == {LinkOf(rows, rows[i], k) : i \in 1..Len(rows)}
LinkTable(ldf, k) == LinksFrom(LinkRows(ldf, k), k)
LinkTables(d, ldf) ==
    SubSeq([k \in 1..Len(LevelCols(d)) |-> LinkTable(ldf, k)], 1, Len(LevelCols(d)))

RECURSIVE SumLinks(_)
SumLinks(S) ==
    IF S = {} THEN 0
    ELSE LET l == CHOOSE x \in S : TRUE IN l.value + SumLinks(S \ {l})

Abs(n) == IF n < 0 THEN 0 - n ELSE n
RelTolInverse == 100000

\* np.isclose(a, b) on whole numbers: |a - b| <= 1e-8 + 1e-5 * |b|
IsClose(a, b) == Abs(a - b) <= Abs(b) \div RelTolInverse

\* csv_agg and links_agg of level k at label lab; the outer merge fills the
\* side that lacks the label with 0
CsvAgg(ldf, k, lab) == SumValues(SelectSeq(ldf, LAMBDA r : r.lev[k] = lab))
LinksAgg(lk, lab) == SumLinks({l \in lk : l.target = lab})
MergedLabels(ldf, lk, k) ==
    {ldf[i].lev[k] : i \in {j \in 1..Len(ldf) : NotNa(ldf[j].lev[k])}}
        \cup {l.target : l \in lk}

\* total_csv: all long rows in sankey_pr_data and sankey_tfw_data, the rows
\* with a level-1 label in sankey_asylum_data and sankey_study_data
TotalCsv(d, ldf) ==
    IF d \in {"pr", "imp_tfw"} THEN SumValues(ldf)
    ELSE SumValues(SelectSeq(ldf, LAMBDA r : NotNa(r.lev[1])))

\* a validation that lets everything pass
validate_aggregates_passes(d, ldf, ls) == TRUE

\* _validate_aggregates: TRUE when it returns, FALSE when it raises
validate_aggregates(d, ldf, ls) ==
    /\ \A k \in 1..Len(ls) :
          \A lab \in MergedLabels(ldf, ls[k], k) :
              IsClose(CsvAgg(ldf, k, lab), LinksAgg(ls[k], lab))
    /\ IsClose(TotalCsv(d, ldf), SumLinks(ls[1]))

HasLevelCols(d, f) ==
    \A k \in 1..Len(LevelCols(d)) : HasColumn(f, LevelCols(d)[k])

\* read_csv and build_nodes_links / build_echarts_data up to the links; a
\* CSV that lacks a level column ends the run with KeyError
SankeyBuild ==
    /\ sankey_pc = "start"
    /\ IF HasLevelCols(ds, csv)
       THEN /\ long_df' = LongDf(ds, csv)
            /\ links' = LinkTables(ds, LongDf(ds, csv))
            /\ sankey_pc' = "built"
            /\ UNCHANGED sankey_err
       ELSE /\ sankey_pc' = "failed"
            /\ sankey_err' = "KeyError"
            /\ UNCHANGED <<long_df, links>>
    /\ UNCHANGED <<extractor, aggregator, html>>

\* the call of _validate_aggregates at the end of the build
SankeyValidate ==
    /\ sankey_pc = "built"
    /\ IF validate_aggregates(ds, long_df, links)
       THEN sankey_pc' = "validated" /\ UNCHANGED sankey_err
       ELSE sankey_pc' = "failed" /\ sankey_err' = "AssertionError"
    /\ UNCHANGED <<extractor, aggregator, long_df, links, html>>

\* main: the template is filled and the artifact written
SankeyWrite ==
    /\ sankey_pc = "validated"
    /\ html' = [links |-> links]
    /\ sankey_pc' = "written"
    /\ UNCHANGED <<extractor, aggregator, long_df, links, sankey_err>>

NextSankey == SankeyBuild \/ SankeyValidate \/ SankeyWrite

(***************************************************************************)
(* Runs of the Sankey builders over a written CSV                          *)
(***************************************************************************)
BigValue == RelTolInverse

SankeyValues == {0, 1, BigValue}

\* label rows in the order of the record, by builder and number of columns
SankeyLabelRows(d, h) ==
    IF d = "asylum" THEN {<<L_A, L_x>>, <<L_A, NaN>>, <<NaN, L_x>>}
    ELSE IF h = 2 THEN {<<L_x, L_A>>, <<NaN, L_A>>, <<L_x, NaN>>}
    ELSE IF h = 3 THEN {<<L_x, L_A, L_p>>, <<NaN, L_A, L_p>>, <<L_NotStated, L_A, L_p>>}
    ELSE {<<L_x, L_A, L_p, L_Q1>>, <<NaN, L_A, L_p, L_Q1>>, <<L_x, L_A, L_p, NaN>>}

SankeyRecord(d, lab, flag, v) ==
    IF d = "imp_tfw"
    THEN [labels |-> lab, total_flag |-> flag, year |-> 2020, value |-> v]
    ELSE [labels |-> lab, total_flag |-> flag, year_month |-> YearMonthKey(2020, 1),
          year |-> 2020, month |-> 1, value |-> v]

SankeyRecords(d, h) ==
    {SankeyRecord(d, lab, flag, v) :
        lab \in SankeyLabelRows(d, h), flag \in BOOLEAN, v \in SankeyValues}

SankeyColumns(d, h) ==
    IF d = "imp_tfw" THEN SubSeq(BaseCols, 1, h) \o <<"total_flag", "year", "value">>
    ELSE IF d = "asylum"
    THEN <<"province_territory", "claim_office_type", "total_flag",
           "year_month", "year", "month", "value">>
    ELSE IF d = "study" THEN MonthlyColumns(<<"province_territory", "study_level">>)
    ELSE MonthlyColumns(SubSeq(BaseCols, 1, h))

SankeyDepths(d) ==
    IF d = "pr" THEN {3, 4} ELSE IF d = "imp_tfw" THEN {2, 3} ELSE {2}

InitSankey ==
    /\ \E d \in SankeyBuilders : \E h \in SankeyDepths(d) :
       \E rows \in SeqsUpTo(SankeyRecords(d, h), 1, MaxCsvRows) :
          /\ ds = d
          /\ csv = [columns |-> SankeyColumns(d, h), rows |-> rows]
          /\ long = rows
    /\ raw = <<>>
    /\ trim_bottom = TRUE
    /\ nanEq = TRUE
    /\ pc = "idle"
    /\ wide = NoTable
    /\ err = "none"
    /\ AggregatorIdle
    /\ sankey_pc = "start"
    /\ long_df = <<>>
    /\ links = <<>>
    /\ html = NoFile
    /\ sankey_err = "none"

SpecSankey == InitSankey /\ [][NextSankey]_vars

(***************************************************************************)
(* Properties of the validator gate                                        *)
(***************************************************************************)
\* some per-label sum, or the overall total, of the long rows is not the
\* sum of the link values
SumsDiffer(d, ldf, ls) ==
    \/ \E k \in 1..Len(ls) :
          \E lab \in MergedLabels(ldf, ls[k], k) :
              CsvAgg(ldf, k, lab) # LinksAgg(ls[k], lab)
    \/ TotalCsv(d, ldf) # SumLinks(ls[1])

\* a and b differ by more than a hundred-thousandth of |b|
Apart(a, b) == Abs(a - b) > Abs(b) \div RelTolInverse

\* the sums differ by more than np.isclose lets pass
SumsApart(d, ldf, ls) ==
    \/ \E k \in 1..Len(ls) :
          \E lab \in MergedLabels(ldf, ls[k], k) :
              Apart(CsvAgg(ldf, k, lab), LinksAgg(ls[k], lab))
    \/ Apart(TotalCsv(d, ldf), SumLinks(ls[1]))

Validating == sankey_pc \in {"built", "validated", "written"}
PastValidation == sankey_pc \in {"validated", "written"}

\* C13 as claimed: a builder goes past validation only when no per-label
\* sum and no overall total of the non-total long rows differs from the sum
\* of the link values
C13_AnyDifferenceStopsArtifact ==
    PastValidation => ~SumsDiffer(ds, long_df, links)

\* the artifact exists only after a validation that returned, and sums that
\* are apart leave the builder failed with no artifact
GateHolds ==
    /\ html # NoFile => (sankey_pc = "written" /\ ~SumsApart(ds, long_df, links))
    /\ (sankey_pc # "start" /\ sankey_err # "KeyError" /\ SumsApart(ds, long_df, links)) =>
          (sankey_pc \in {"built", "failed"} /\ html = NoFile)
    /\ sankey_err = "AssertionError" => (sankey_pc = "failed" /\ html = NoFile)

\* the artifact is written from the validated position only, and no step of
\* a builder touches the CSV
GateStep ==
    /\ html' # html => (sankey_pc = "validated" /\ sankey_pc' = "written")
    /\ sankey_pc' = "failed" => html' = NoFile
    /\ csv' = csv

\* what the builders do keep of C13: validation comes before the artifact
\* is written; when a per-label sum or the overall total of the non-total
\* long rows differs from the sum of the link values by more than the
\* tolerance of np.isclose (1e-8 + 1e-5 * |link sum|) validation raises and
\* no artifact is written, then or later; the CSV stays as it was written
ValidatedBeforeWritten == [](GateHolds) /\ [][GateStep]_vars

\* validation has raised on a CSV whose sums are apart; there is no
\* artifact and the CSV is there
MismatchRaised ==
    /\ sankey_pc = "failed"
    /\ sankey_err = "AssertionError"
    /\ SumsApart(ds, long_df, links)
    /\ html = NoFile
    /\ csv # NoFile

\* C13 witness: an artifact has been written although a per-label sum of
\* the long rows is not the sum of the link values
C13_ArtifactWrittenOnDifference ==
    /\ sankey_pc = "written"
    /\ html # NoFile
    /\ SumsDiffer(ds, long_df, links)

(***************************************************************************)
(* Runs over sheets whose rows carry one value each: subtotal rows may or  *)
(* may not carry the sum of their detail rows                              *)
(***************************************************************************)
MaxSumRows == 3

RowValueChoices == {1, 2}

SumLabelRows(d, h) ==
    IF h = 3
    THEN {<<L_A, L_x, L_p>>, <<L_A, L_x, NaN>>, <<L_A, NaN, NaN>>, <<NaN, NaN, L_p>>}
    ELSE IF d = "study"
    THEN {<<L_Anomaly, L_x>>, <<L_Anomaly, NaN>>, <<L_Total, L_x>>, <<L_Total, NaN>>}
    ELSE {<<L_A, L_x>>, <<L_A, NaN>>, <<L_NotStated, L_x>>, <<L_NotStated, NaN>>}

\* a row: its labels and the value in each of its cells
SumRowChoices(d, h) ==
    {<<lab, v>> : lab \in SumLabelRows(d, h),
                  v \in (IF h = 3 THEN {1} ELSE RowValueChoices)}

SumSheet(d, h, rows) ==
    Sheet(d, h, HeaderYears(d), HeaderMonths(d),
          [i \in 1..Len(rows) |-> rows[i][1]],
          [i \in 1..Len(rows) |-> [j \in 1..Len(HeaderYears(d)) |-> Int0(rows[i][2])]])

InitSum ==
    \E d \in {"pr", "study"} :
    \E h \in (IF d = "pr" THEN {2, 3} ELSE {2}) :
    \E rows \in SeqsUpTo(SumRowChoices(d, h), 1, MaxSumRows) :
        Start(d, SumSheet(d, h, rows), TRUE, TRUE)

SpecSum == InitSum /\ [][Next]_vars

(***************************************************************************)
(* Properties of the sums of the emitted table                             *)
(***************************************************************************)
\* row i is a structural subtotal of level k: labels at levels 0..k, blanks
\* below, and another row with the same labels at 0..k and a label at k+1
Structural(labels, i, k) ==
    /\ CandidateAt(labels[i], k)
    /\ \A m \in 1..(k + 1) : NotNa(labels[i][m])
    /\ \E j \in 1..Len(labels) :
          j # i /\ SharesKey(labels[j], labels[i], k) /\ NotNa(labels[j][k + 2])

IsStructural(labels, i) ==
    \E k \in 0..(Len(labels[i]) - 2) : Structural(labels, i, k)

RECURSIVE SumCells(_)
SumCells(s) == IF s = <<>> THEN 0 ELSE Head(s) + SumCells(Tail(s))

\* the sum of the values of the rows of S among the first n rows
RECURSIVE SumRowsIn(_, _, _)
SumRowsIn(w, n, S) ==
    IF n = 0 THEN 0
    ELSE SumRowsIn(w, n - 1, S) + (IF n \in S THEN SumCells(w.vals[n]) ELSE 0)

\* the detail rows of the subtotal row i of level k: the rows with its
\* labels at 0..k that are not structural subtotals
DetailRowsOf(labels, i, k) ==
    {j \in 1..Len(labels) : SharesKey(labels[j], labels[i], k) /\ ~IsStructural(labels, j)}

DetailSumOf(labels, w, i, k) == SumRowsIn(w, Len(labels), DetailRowsOf(labels, i, k))

\* the input is consistent: each structural subtotal carries the sum of its
\* detail rows (labels: the label rows of the sheet after backfill)
ConsistentSubtotals(labels, w) ==
    \A i \in 1..Len(labels) : \A k \in 0..(Len(w.hcols) - 2) :
        Structural(labels, i, k) => SumCells(w.vals[i]) = DetailSumOf(labels, w, i, k)

\* the sums of the emitted records with labels lab at levels 0..k
DetailSumEmitted(rows, lab, k) ==
    SumValues(SelectSeq(rows, LAMBDA r : ~r.total_flag /\ SharesKey(r.labels, lab, k)))
TotalSumEmitted(rows, lab, k) ==
    SumValues(SelectSeq(rows, LAMBDA r : /\ r.total_flag
                                         /\ CandidateAt(r.labels, k)
                                         /\ SharesKey(r.labels, lab, k)))

\* for the labels of every structural subtotal, the detail records sum to
\* what the flagged records of that level sum to
SumsMatch(labels, rows) ==
    \A i \in 1..Len(labels) : \A k \in 0..(Len(labels[i]) - 2) :
        Structural(labels, i, k) =>
            DetailSumEmitted(rows, labels[i], k) = TotalSumEmitted(rows, labels[i], k)

\* a structural subtotal has a detail row in the unbroken run of same-label
\* rows directly above it
DetailsDirectlyAbove(labels) ==
    \A i \in 1..Len(labels) : \A k \in 0..(Len(labels[i]) - 2) :
        Structural(labels, i, k) => DetailInRunAbove(labels, i, k)

\* a structural subtotal is the only subtotal of its level for its labels
OneSubtotalPerLabel(labels) ==
    \A i \in 1..Len(labels) : \A k \in 0..(Len(labels[i]) - 2) :
        Structural(labels, i, k) =>
            \A j \in 1..Len(labels) :
                (Structural(labels, j, k) /\ SharesKey(labels[j], labels[i], k)) => j = i

\* extract_study: the anomaly row is not a structural subtotal
NoAnomalySubtotal(d, labels) ==
    \A i \in 1..Len(labels) :
        (d = "study" /\ IsAnomalyRow(labels[i])) => ~IsStructural(labels, i)

\* the last Total row is a subtotal row or shares its labels with none
LastTotalNotDetail(labels) ==
    \A i \in 1..Len(labels) :
        (i = LastTotalRow(labels) /\ ~IsStructural(labels, i)) =>
            \A j \in 1..Len(labels) : \A k \in 0..(Len(labels[i]) - 2) :
                ~(Structural(labels, j, k) /\ SharesKey(labels[i], labels[j], k))

\* extract_pr: no province label is rewritten into category_1 after the melt
NoNotStatedProvince(d, labels) ==
    \A i \in 1..Len(labels) : LongLabels(d, labels[i]) = labels[i]

SubtotalsBelowDetails(d, labels) ==
    /\ DetailsDirectlyAbove(labels)
    /\ OneSubtotalPerLabel(labels)
    /\ NoAnomalySubtotal(d, labels)
    /\ LastTotalNotDetail(labels)
    /\ NoNotStatedProvince(d, labels)

SumChecked == pc = "written" /\ ds \in {"pr", "study"}

SumInvariantOnConsistentInput(labels, w, rows) ==
    ConsistentSubtotals(labels, w) => SumsMatch(labels, rows)

SumInvariantSubtotalsBelowDetails(d, labels, w, rows) ==
    (ConsistentSubtotals(labels, w) /\ SubtotalsBelowDetails(d, labels))
        => SumsMatch(labels, rows)

SubtotalOfTwo(labels, w, rows) ==
    /\ ConsistentSubtotals(labels, w)
    /\ \E i \in 3..Len(labels) :
          /\ Structural(labels, i, 0)
          /\ w.flags[i]
          /\ ~w.flags[i - 1] /\ ~w.flags[i - 2]
          /\ SharesKey(labels[i - 1], labels[i], 0)
          /\ SharesKey(labels[i - 2], labels[i], 0)
          /\ DetailSumEmitted(rows, labels[i], 0) = SumCells(w.vals[i])

AsylumParsedTable == ds = "asylum" /\ pc = "parsed" /\ wide.ok

LabelPresent(x) == ~IsBlankText(x)

IsLastOfficeTotal(labels, i) ==
    /\ IsTotalLabel(labels[i][1])
    /\ \A m \in (i + 1)..Len(labels) : ~IsTotalLabel(labels[m][1])

\* claim_office_type present, province_territory blank, not Other Offices
OfficeSubtotalShape(lab) ==
    /\ LabelPresent(lab[1])
    /\ IsBlankText(lab[2])
    /\ NormLabel(lab[1]) # T_other_offices

AsylumFlagRule(labels, flags) ==
    /\ \A i \in 1..Len(labels) :
          flags[i] <=> (OfficeSubtotalShape(labels[i]) \/ IsLastOfficeTotal(labels, i))
    /\ \A i \in 1..Len(labels) :
          (LabelPresent(labels[i][2]) /\ ~IsLastOfficeTotal(labels, i)) => ~flags[i]

\* C15: in the wide table of parse_asylum_data, total_flag is True exactly on
\* the rows with a claim_office_type other than Other Offices and a blank
\* province_territory and on the last row whose claim_office_type reads
\* Total; every other row with a province_territory has False
C15_AsylumFlagRule ==
    AsylumParsedTable => AsylumFlagRule(wide.labels, wide.flags)

\* C15 witness: a parsed table with an Other Offices row without province
\* that is not flagged, above a last Total row with a province that is
C15_OtherOfficesAboveProvinceTotal ==
    /\ AsylumParsedTable
    /\ \E i \in 2..Len(wide.labels) :
          /\ NormLabel(wide.labels[i - 1][1]) = T_other_offices
          /\ IsBlankText(wide.labels[i - 1][2])
          /\ ~wide.flags[i - 1]
          /\ IsLastOfficeTotal(wide.labels, i)
          /\ LabelPresent(wide.labels[i][2])
          /\ wide.flags[i]

(***************************************************************************)
(* Properties of the backward scan                                         *)
(***************************************************************************)
FlagsInferred ==
    \/ ds = "asylum" /\ pc = "parsed" /\ wide.ok
    \/ ds \in {"pr", "imp_tfw", "study"} /\ pc = "transformed"

\* the labels total inference reads
ScanLabels == IF ds = "asylum" THEN wide.labels ELSE Backfilled

\* the rows the claim leaves out: the forced last Total row and the rows of
\* the dataset overrides
ForcedOrOverridden(d, labels, i) ==
    \/ i = LastTotalRow(labels)
    \/ d = "study" /\ IsAnomalyRow(labels[i])
    \/ d = "asylum" /\ NormLabel(labels[i][1]) = T_other_offices

KeyLabelled(lab, k) == \A m \in 1..(k + 1) : NotNa(lab[m])

\* every candidate row is flagged exactly when a detail row lies in the
\* unbroken run of same-label rows directly above it
ScanConfirmsCandidates(d, labels, flags) ==
    \A i \in 1..Len(labels) : \A k \in 0..(Len(labels[i]) - 2) :
        (CandidateAt(labels[i], k) /\ ~ForcedOrOverridden(d, labels, i))
            => (flags[i] <=> DetailInRunAbove(labels, i, k))

ScanConfirmsLabelledCandidates(d, labels, flags) ==
    \A i \in 1..Len(labels) : \A k \in 0..(Len(labels[i]) - 2) :
        ( /\ CandidateAt(labels[i], k)
          /\ KeyLabelled(labels[i], k)
          /\ ~ForcedOrOverridden(d, labels, i) )
            => (flags[i] <=> DetailInRunAbove(labels, i, k))

UnflaggedBehindBoundary(labels, flags) ==
    \E i \in 3..Len(labels) :
        /\ CandidateAt(labels[i], 0)
        /\ ~ForcedOrOverridden(ds, labels, i)
        /\ ~SharesKey(labels[i - 1], labels[i], 0)
        /\ SharesKey(labels[i - 2], labels[i], 0)
        /\ NotNa(labels[i - 2][2])
        /\ ~flags[i]

IsLeafRow(lab) == NotNa(lab[Len(lab)])

IsBlankRow(lab) == \A m \in 1..Len(lab) : IsNa(lab[m])

\* with at least two levels, a row with a label at the deepest level has no
\* candidate level and is not flagged unless it is the last Total row; a row
\* blank at every level is not flagged
LeafRowsAreDetail(labels, flags) ==
    \A i \in 1..Len(labels) :
        Len(labels[i]) >= 2 =>
            /\ IsLeafRow(labels[i]) =>
                  /\ candidate_level(labels[i]) = NoLevel
                  /\ (i # LastTotalRow(labels) => ~flags[i])
            /\ IsBlankRow(labels[i]) => ~flags[i]

\* C17: total inference of extract_pr, extract_imp_tfw and extract_study at
\* depth 2 or more leaves every row with a label at the deepest level without
\* candidate level and with total_flag False, the last Total row apart, and
\* every row blank at all levels with total_flag False
C17_LeafRowsAreDetail ==
    [][InferenceStep =>
          LeafRowsAreDetail(Infill(wide.labels, Len(wide.hcols)), wide'.flags)]_vars

LeafBelowDetailUnflagged(labels, flags) ==
    \E i \in 2..Len(labels) :
        /\ Len(labels[i]) >= 2
        /\ IsLeafRow(labels[i]) /\ IsLeafRow(labels[i - 1])
        /\ SharesKey(labels[i - 1], labels[i], 0)
        /\ ~flags[i]
        /\ \E j \in 1..Len(labels) : IsLeafRow(labels[j]) /\ j = LastTotalRow(labels) /\ flags[j]

\* C17 witness: inference has left a leaf row below a leaf row of the same
\* first label unflagged, and flagged the last Total row though it is a leaf
\* row
C17_LeafRowUnflaggedLeafTotalFlagged ==
    /\ pc = "transformed"
    /\ LeafBelowDetailUnflagged(wide.labels, wide.flags)

(***************************************************************************)
(* Runs over sheets whose labels and values both vary                      *)
(***************************************************************************)
MaxShapeRows == 2

ShapeSpecial(d) ==
    IF d = "asylum" THEN L_Other ELSE IF d = "study" THEN L_Anomaly ELSE NaN

ShapeLabelRows(d) ==
    {<<a, b>> : a \in {L_A, L_Total, ShapeSpecial(d)}, b \in {NaN, L_x}}

\* a sheet with label rows labs whose row i has values[i] in every value cell
ShapeSheet(d, labs, values) ==
    SumSheet(d, 2, [i \in 1..Len(labs) |-> <<labs[i], values[i]>>])

InitShape ==
    \E d \in {"pr", "imp_tfw", "study", "asylum"} :
    \E n \in 1..MaxShapeRows :
    \E labs \in SeqsOfLen(ShapeLabelRows(d), n) :
    \E values \in SeqsOfLen(RowValueChoices, n) :
        Start(d, ShapeSheet(d, labs, values), TRUE, TRUE)

SpecShape == InitShape /\ [][Next]_vars

(***************************************************************************)
(* Total inference and the value cells                                     *)
(***************************************************************************)
\* the wide table with its flags that extractor d makes of sheet g
FlaggedTable(d, g, trim, neq) ==
    IF d = "asylum" THEN ParseGrid(d, g, trim)
    ELSE transform_hierarchical(d, ParseGrid(d, g, trim), neq)

\* a sheet with the same label columns as g and other values gets the same
\* flags as w has
SameFlagsAs(d, labs, values, trim, neq, w) ==
    FlaggedTable(d, ShapeSheet(d, labs, values), trim, neq).flags = w.flags

FlagsFromShape(d, labs, trim, neq, w) ==
    \A values \in SeqsOfLen(RowValueChoices, Len(labs)) :
        SameFlagsAs(d, labs, values, trim, neq, w)

\* C18: the flags an extractor gives the rows of a sheet are the flags it
\* gives the rows of every sheet with the same label columns and other
\* numeric value cells
C18_FlagsDependOnLabelsOnly ==
    FlagsInferred => FlagsFromShape(ds, SheetLabels(ds, raw), trim_bottom, nanEq, wide)

\* the flags of w, a table with a flagged and an unflagged row, are those of
\* the sheet with values in place of its own
FlagsKeptUnder(d, labs, values, trim, neq, w) ==
    /\ \E i \in 1..Len(w.flags) : w.flags[i]
    /\ \E i \in 1..Len(w.flags) : ~w.flags[i]
    /\ \E i \in 1..Len(w.vals) : w.vals[i][1] # values[i]
    /\ SameFlagsAs(d, labs, values, trim, neq, w)

\* C18 witness: a table of two rows of value 1, one flagged and one not, and
\* the same sheet with rows of value 2 gets the same flags
C18_SameFlagsForOtherValues ==
    /\ FlagsInferred
    /\ Len(wide.labels) = 2
    /\ \A i \in 1..2 : wide.vals[i][1] = 1
    /\ FlagsKeptUnder(ds, SheetLabels(ds, raw), <<2, 2>>, trim_bottom, nanEq, wide)

(***************************************************************************)
(* Properties of the order of stripping and substitution                   *)
(***************************************************************************)
IsPadding(c) == c \in {" ", "NBSP", "NNBSP"}

\* the text is "--" with padding before it, after it or both
IsPaddedDashes(s) ==
    /\ Len(s) > 2
    /\ \E i \in 1..(Len(s) - 1) :
          /\ SubSeq(s, i, i + 1) = T_dashes
          /\ \A m \in 1..Len(s) : m \notin {i, i + 1} => IsPadding(s[m])

PaddedDashesCell(x) == x.k = "str" /\ IsPaddedDashes(x.s)

\* C19 as claimed: in every extractor a value cell that is "--" padded with
\* spaces, U+00A0 or U+202F is normalized to 2, as the bare "--" is
C19_PaddedDashesGiveTwo ==
    /\ (NumParsed /\ PaddedDashesCell(NumCell)) => NumValue = 2
    /\ (NumParsed /\ NumCell = Str(T_dashes)) => NumValue = 2

\* in the monthly extractors, which strip before they substitute, it is so
PaddedDashesGiveTwoInMonthly ==
    (NumParsed /\ ds # "imp_tfw" /\ PaddedDashesCell(NumCell)) => NumValue = 2

\* C19 witness: extract_imp_tfw, which substitutes on the raw cell and strips
\* afterwards, has written 0 for the cell " --"
C19_PaddedDashesGiveZeroInImpTfw ==
    /\ pc = "written"
    /\ ds = "imp_tfw"
    /\ NumCell = Str(<<" ", "-", "-">>)
    /\ NumValue = 0
    /\ \E p \in 1..Len(csv.rows) : csv.rows[p].value = 0

(***************************************************************************)
(* Properties of the axis column selection                                 *)
(***************************************************************************)
\* the month cell, trimmed, is one of Jan .. Dec as written
IsMonthCell(x) ==
    /\ NotNa(x)
    /\ \E i \in DOMAIN MonthAbbrevs : Strip(AsStr(x)) = MonthAbbrevs[i]

\* column b holds the nearest non-blank year cell at or left of column c
NearestYearAt(g, yr, c, b) ==
    /\ b <= c
    /\ NotNa(Cell(g, yr, b))
    /\ \A m \in (b + 1)..c : IsNa(Cell(g, yr, m))

YearReadable(v) == IntParses(AsStr(v)) \/ LeadingYearMatches(AsStr(v))

\* the columns the claim keeps
SelectedCols(g, a) ==
    {c \in a.first_data_col..(NCols(g) - 1) :
        /\ IsMonthCell(Cell(g, a.month_row, c))
        /\ \E b \in 0..c :
              NearestYearAt(g, a.year_row, c, b) /\ YearReadable(Cell(g, a.year_row, b))}

RECURSIVE Increasing(_)
Increasing(S) == IF S = {} THEN <<>> ELSE <<MinOf(S)>> \o Increasing(S \ {MinOf(S)})

\* the year of the nearest non-blank year cell at or left of column c reads
\* as the year of key k, and k's month is that of the month cell
KeyOfNearestYear(g, a, c, k) ==
    \E b \in 0..c :
        /\ NearestYearAt(g, a.year_row, c, b)
        /\ k = YearMonthKey(YearOf(Cell(g, a.year_row, b)),
                            MonthIndex(Cell(g, a.month_row, c)))

\* the canonical columns of w are the selected columns in increasing order,
\* each with the values of its source column
AxisSelects(g, a, cols, w) ==
    /\ Len(w.keys) = Len(cols)
    /\ \A i \in 1..Len(cols) :
          /\ KeyOfNearestYear(g, a, cols[i], w.keys[i])
          /\ w.vals[1][i] = Cell(g, a.month_row + 1, cols[i]).v

AxisBuilt == ds # "imp_tfw" /\ pc \in {"parsed", "transformed", "melted", "written"}

\* C20: in the monthly extractors the canonical columns are exactly the
\* source columns at or right of the first data column whose month cell,
\* trimmed, is one of Jan .. Dec and whose forward-filled year cell is
\* non-blank and reads as an integer or starts with four digits, in increasing
\* column order, each with the year of the nearest non-blank year cell at or
\* to its left; the other columns are dropped and the run goes on
C20_AxisColumnSelection ==
    AxisBuilt =>
        AxisSelects(raw, MonthlyAxis(ds, raw),
                    Increasing(SelectedCols(raw, MonthlyAxis(ds, raw))), wide)

AxisDropsAndFills(g, a, w) ==
    /\ \E c \in a.first_data_col..(NCols(g) - 1) :
          /\ IsNa(Cell(g, a.year_row, c))
          /\ c \in SelectedCols(g, a)
    /\ \E c \in a.first_data_col..(NCols(g) - 1) :
          /\ IsMonthCell(Cell(g, a.month_row, c))
          /\ c \notin SelectedCols(g, a)
    /\ \E c \in a.first_data_col..(NCols(g) - 1) :
          /\ ~IsMonthCell(Cell(g, a.month_row, c))
          /\ \E c2 \in SelectedCols(g, a) : c2 > c
    /\ Len(w.keys) = Cardinality(SelectedCols(g, a))

\* C20 witness: a table is written from a sheet with a kept column whose own
\* year cell is blank, a month column dropped for its year cell, and a
\* quarter column dropped between kept columns
C20_ColumnsDroppedAndYearFilled ==
    /\ pc = "written"
    /\ ds # "imp_tfw"
    /\ AxisDropsAndFills(raw, MonthlyAxis(ds, raw), wide)

PaddedMonthKept(g, a) ==
    \E c \in SelectedCols(g, a) : Cell(g, a.month_row, c) = L_Feb_padded

LowerCaseMonthDropped(g, a) ==
    \E c \in a.first_data_col..(NCols(g) - 1) :
        Cell(g, a.month_row, c) = L_feb /\ c \notin SelectedCols(g, a)

(***************************************************************************)
(* Runs over sheets whose rows above the data vary: blank rows, rows with  *)
(* fewer year cells than the threshold, with exactly as many, with one     *)
(* more, and month rows                                                    *)
(***************************************************************************)
MaxHeaderRows == 4

MinYears(d) ==
    IF d = "pr" THEN MinYearsPr
    ELSE IF d = "asylum" THEN MinYearsAsylum
    ELSE MinYearsStudy

YearCells(n, base) == [j \in 1..n |-> Int0(base + j)]

SixMonths == <<L_Jan, L_Feb, L_Mar, L_Apr, L_May, L_Jun>>

\* two label columns and six value columns
HeaderWidth == AsylumHier + Len(SixMonths)

\* a row of HeaderWidth cells, blank but for cells from column start on
RowWith(start, cells) ==
    [c \in 1..HeaderWidth |->
        IF c - 1 >= start /\ c - 1 < start + Len(cells) THEN cells[c - start] ELSE NaN]

HeaderRowKinds(d) ==
    {RowWith(0, <<>>),
     RowWith(2, YearCells(MinYears(d) - 1, 1990)),
     RowWith(2, YearCells(MinYears(d), 2000)),
     RowWith(1, YearCells(MinYears(d) + 1, 2010)),
     RowWith(2, SixMonths)}

HeaderDataRows ==
    <<RowWith(0, <<L_A, L_x, Int0(1), Int0(2), Int0(3), Int0(4), Int0(5), Int0(6)>>),
      RowWith(0, <<L_Total, NaN, Int0(1), Int0(2), Int0(3), Int0(4), Int0(5), Int0(6)>>)>>

InitHeader ==
    \E d \in {"pr", "asylum", "study"} :
    \E top \in SeqsUpTo(HeaderRowKinds(d), 1, MaxHeaderRows) :
        Start(d, top \o HeaderDataRows, TRUE, TRUE)

SpecHeader == InitHeader /\ [][Next]_vars

(***************************************************************************)
(* Properties of the year row chosen                                       *)
(***************************************************************************)
\* the detector of a monthly extractor with header detection
Detected(d, g) ==
    IF d = "pr" THEN detect_header_structure(g)
    ELSE IF d = "asylum" THEN detect_header_structure_asylum(g)
    ELSE detect_year_and_month_rows(g)

ReadsAsYear(d, x) == IF d = "study" THEN is_year_like(x) ELSE is_year(x)

YearCellCols(d, g, i) == {c \in 0..(NCols(g) - 1) : ReadsAsYear(d, Cell(g, i, c))}

\* the rows in the scan budget with at least the threshold of year cells
QualifyingRows(d, g) ==
    {i \in 0..(Min2(MaxScanRows(d), NRows(g)) - 1) :
        Cardinality(YearCellCols(d, g, i)) >= MinYears(d)}

\* the result names the first qualifying row and (extract_pr, extract_asylum)
\* its leftmost year cell
FirstQualifying(d, g, q, det) ==
    /\ d # "study" => (det.ok <=> q # {})
    /\ det.ok =>
          /\ q # {}
          /\ det.year_row = MinOf(q)
          /\ d # "study" => det.first_data_col = MinOf(YearCellCols(d, g, MinOf(q)))

\* the table parsed has its years from the first qualifying row
KeyYearFromRow(d, g, i, k) ==
    \E c \in YearCellCols(d, g, i) :
        SubSeq(k, 1, 4) = Format04(YearCellValue(Cell(g, i, c)))

TableFromFirstQualifying(d, g, q, w) ==
    /\ q # {}
    /\ \A n \in 1..Len(w.keys) : KeyYearFromRow(d, g, MinOf(q), w.keys[n])
    /\ d = "pr" => Len(w.hcols) = MinOf(YearCellCols(d, g, MinOf(q)))

HeaderDetected == ds \in {"pr", "asylum", "study"} /\ pc # "start"

\* C21: the three header detectors return as year row the first row of the
\* scan budget with at least the threshold of year cells (5, 3, 4), never a
\* later row with more, and (extract_pr, extract_asylum) as first data column
\* that row's leftmost year cell; the table parsed is built on that row
C21_FirstQualifyingRowWins ==
    HeaderDetected =>
        /\ FirstQualifying(ds, raw, QualifyingRows(ds, raw), Detected(ds, raw))
        /\ (pc # "failed" => TableFromFirstQualifying(ds, raw, QualifyingRows(ds, raw), wide))

LaterRowHasMore(d, g, q) ==
    /\ q # {}
    /\ \E i \in q :
          /\ i > MinOf(q)
          /\ Cardinality(YearCellCols(d, g, i)) > Cardinality(YearCellCols(d, g, MinOf(q)))
          /\ MinOf(YearCellCols(d, g, i)) < MinOf(YearCellCols(d, g, MinOf(q)))

\* C21 witness: a table is written from a sheet whose first qualifying row
\* has fewer year cells, starting further right, than a later row
C21_LaterRowWithMoreYearsPassedOver ==
    /\ pc = "written"
    /\ ds = "pr"
    /\ LaterRowHasMore(ds, raw, QualifyingRows(ds, raw))
    /\ Len(wide.hcols) = 2
    /\ Len(wide.keys) > 0

(***************************************************************************)
(* Properties of the month row chosen                                      *)
(***************************************************************************)
\* the offset the claim gives each layout
ClaimedOffset(d) == IF d = "asylum" THEN MonthOffsetAsylum ELSE MonthOffsetPr

IsMonthRow(g, r) ==
    Cardinality({c \in 0..(NCols(g) - 1) : IsMonthCell(Cell(g, r, c))}) >= MinMonthsStudy

\* r is the first row below yr, in the scan budget, that reads as a month row
FirstMonthRowBelow(g, yr, r) ==
    /\ r > yr
    /\ r < Min2(MaxScanRowsStudy, NRows(g))
    /\ IsMonthRow(g, r)
    /\ \A m \in (yr + 1)..(r - 1) : ~IsMonthRow(g, m)

\* the keys of the table are read off row mr
KeysFromMonthRow(g, mr, keys) ==
    \A n \in 1..Len(keys) :
        \E c \in 0..(NCols(g) - 1) :
            /\ mr < NRows(g)
            /\ MonthIndex(Cell(g, mr, c)) # 0
            /\ SubSeq(keys[n], 6, 7) = MonthNum(MonthIndex(Cell(g, mr, c)))

MonthRowAtOffset(d, g, det) ==
    det.ok =>
        /\ det.month_row = det.year_row + ClaimedOffset(d)
        /\ det.month_row > det.year_row

MonthRowAsCoded(d, g, det) ==
    det.ok =>
        /\ d # "study" => det.month_row = det.year_row + ClaimedOffset(d)
        /\ d = "study" => FirstMonthRowBelow(g, det.year_row, det.month_row)
        /\ det.month_row > det.year_row

\* C22 as claimed: in every monthly extractor with header detection the month
\* row is the year row plus a fixed offset, 1 for asylum and 2 for the
\* layouts with a quarter row, whatever the rows below the year row hold
C22_MonthRowAtFixedOffset ==
    HeaderDetected => MonthRowAtOffset(ds, raw, Detected(ds, raw))

\* C22: in extract_pr the month row is the year row plus 2 and in
\* extract_asylum the year row plus 1, whatever the rows below hold; in
\* extract_study it is the first row below the year row, within the scan
\* budget, with at least six month cells; it is always below the year row,
\* and the keys of the table parsed are read off it
C22_MonthRowFixedButInStudy ==
    HeaderDetected =>
        /\ MonthRowAsCoded(ds, raw, Detected(ds, raw))
        /\ (pc # "failed" => KeysFromMonthRow(raw, Detected(ds, raw).month_row, wide.keys))

MonthRowBelowPassedOver(g, det) ==
    /\ det.ok
    /\ det.month_row = det.year_row + MonthOffsetPr
    /\ IsMonthRow(g, det.year_row + 1)

\* C22 witness: extract_pr has written a table from a sheet with a month row
\* directly below the year row, reading the months two rows below it
C22_PrReadsSecondRowBelow ==
    /\ pc = "written"
    /\ ds = "pr"
    /\ MonthRowBelowPassedOver(raw, Detected(ds, raw))
    /\ Len(wide.keys) > 0

(***************************************************************************)
(* Runs of extract_imp_tfw over sheets whose rows above the data hold year *)
(* runs of several lengths and starts                                      *)
(***************************************************************************)
MaxYearRunRows == 3

\* <<start column, number of years>> of the rows; the last is a run of
\* exactly MinYearsImp years that ends at the last column
YearRunShapes ==
    {<<1, MinYearsImp + 1>>, <<2, MinYearsImp - 1>>, <<2, MinYearsImp>>,
     <<2, MinYearsImp + 1>>, <<HeaderWidth - MinYearsImp, MinYearsImp>>}

YearRunRows ==
    {RowWith(0, <<>>)} \cup {RowWith(s[1], YearCells(s[2], 2000)) : s \in YearRunShapes}

InitYearRun ==
    \E top \in SeqsUpTo(YearRunRows, 1, MaxYearRunRows) :
        Start("imp_tfw", top \o HeaderDataRows, TRUE, TRUE)

SpecYearRun == InitYearRun /\ [][Next]_vars

(***************************************************************************)
(* Properties of the year-only header detection                            *)
(***************************************************************************)
\* the (row, column) pairs at which a run of at least MinYearsImp year cells
\* begins, row in the scan budget, column from FirstStartImp up to
\* MaxFirstCols - 1
YearRunStarts(g) ==
    {p \in (0..(Min2(MaxScanRowsImp, NRows(g)) - 1))
             \X (FirstStartImp..(Min2(MaxFirstCols, NCols(g)) - 1)) :
        Len(YearRun(g, p[1], p[2])) >= MinYearsImp}

\* the first pair in row-major order
FirstInScanOrder(S, p) ==
    /\ p \in S
    /\ \A q \in S : p[1] < q[1] \/ (p[1] = q[1] /\ p[2] <= q[2])

ReturnsFirstRun(g, S, det) ==
    S # {} =>
        /\ det.ok
        /\ FirstInScanOrder(S, <<det.year_row, det.first_data_col>>)
        /\ det.years = YearRun(g, det.year_row, det.first_data_col)
        /\ ~is_year(Cell(g, det.year_row, det.first_data_col - 1))

YearRunDetected == ds = "imp_tfw" /\ pc # "start"

\* C23 as claimed: whenever a row in the scan budget holds a run of at least
\* 5 year cells beginning at a column from 2 up to max_first_cols - 1, also
\* a run of exactly 5 that ends at the last column, detection succeeds and
\* returns the first such row and column in scan order with the whole run,
\* the cell left of the start not being a year; the run then goes on
C23_FirstYearRunDetected ==
    YearRunDetected =>
        /\ ReturnsFirstRun(raw, YearRunStarts(raw), detect_header_and_year_start(raw))
        /\ (YearRunStarts(raw) # {} => err # "HeaderNotFound")

\* what the code returns: the first pair among the start columns below
\* min(max_first_cols, ncols - 5)
ReturnsFirstTriedRun(g, S, det) ==
    /\ det.ok <=> S # {}
    /\ det.ok =>
          /\ FirstInScanOrder(S, <<det.year_row, det.first_data_col>>)
          /\ det.years = YearRun(g, det.year_row, det.first_data_col)

FirstTriedYearRunDetected ==
    YearRunDetected =>
        ReturnsFirstTriedRun(raw, ImpHits(raw), detect_header_and_year_start(raw))

OnlyRunEndsAtLastColumn(g, S) ==
    /\ S # {}
    /\ \A p \in S :
          /\ p[2] = NCols(g) - MinYearsImp
          /\ Len(YearRun(g, p[1], p[2])) = MinYearsImp

\* C23 witness: extract_imp_tfw has ended with the locator's error on a
\* sheet whose only year run has exactly 5 years and ends at the last column
C23_RunAtLastColumnNotFound ==
    /\ ds = "imp_tfw"
    /\ pc = "failed"
    /\ err = "HeaderNotFound"
    /\ OnlyRunEndsAtLastColumn(raw, YearRunStarts(raw))

(***************************************************************************)
(* Properties of the backfill of the shallowest level                      *)
(***************************************************************************)
Column(labels, j) == [i \in 1..Len(labels) |-> labels[i][j]]

HasLabelBelow(col, i) == \E m \in (i + 1)..Len(col) : NotNa(col[m])

\* the nearest non-blank cell below row i
NearestBelow(col, i) == col[MinOf({m \in (i + 1)..Len(col) : NotNa(col[m])})]

\* a blank cell holds the nearest non-blank cell below it, or stays blank
\* when there is none; a non-blank cell is unchanged
FilledFromBelow(col, i) ==
    IF NotNa(col[i]) THEN col[i]
    ELSE IF HasLabelBelow(col, i) THEN NearestBelow(col, i)
    ELSE NaN

ColumnFilledFromBelow(before, after) ==
    /\ Len(after) = Len(before)
    /\ \A i \in 1..Len(before) : after[i] = FilledFromBelow(before, i)

\* extract_asylum: a filled cell holds the text of the nearest non-blank cell
\* below it less a trailing "- Total"
AsylumFilledFromBelow(col, i) ==
    IF NotNa(col[i]) THEN col[i]
    ELSE Str(RemoveDashTotalSuffix(AsStr(NearestBelow(col, i))))

\* the rows of after are rows of the sheet column, in order, each filled as
\* Fill says; rows of Gone are not among them
RowsFilled(col, after, Fill(_, _), Gone) ==
    \E f \in [1..Len(after) -> 1..Len(col)] :
        /\ \A n \in 1..(Len(after) - 1) : f[n] < f[n + 1]
        /\ \A n \in 1..Len(after) : f[n] \notin Gone /\ after[n] = Fill(col, f[n])

\* the rows of the asylum sheet with a blank cell and no label below
NoDonorRows(col) == {i \in 1..Len(col) : IsNa(col[i]) /\ ~HasLabelBelow(col, i)}

AsylumParseStep == ds = "asylum" /\ pc = "start" /\ pc' = "parsed"

\* C24 as claimed: after hierarchy normalization every blank cell of the
\* shallowest column holds the value of the nearest non-blank cell below it,
\* or stays blank when there is none, and every non-blank cell is unchanged
C24_ShallowestFilledFromBelow ==
    [][ /\ InferenceStep =>
              ColumnFilledFromBelow(Column(wide.labels, 1), Column(wide'.labels, 1))
        /\ AsylumParseStep =>
              RowsFilled(Column(SheetLabels(ds, raw), 1), Column(wide'.labels, 1),
                         FilledFromBelow, {}) ]_vars

\* C24: so it is in extract_pr, extract_imp_tfw and extract_study; in
\* extract_asylum a filled cell holds the text of the nearest non-blank cell
\* below it less a trailing "- Total", and a row whose cell is blank with no
\* non-blank cell below it is not in the table
C24_ShallowestFilledFromBelowLessDashTotal ==
    [][ /\ InferenceStep =>
              ColumnFilledFromBelow(Column(wide.labels, 1), Column(wide'.labels, 1))
        /\ AsylumParseStep =>
              RowsFilled(Column(SheetLabels(ds, raw), 1), Column(wide'.labels, 1),
                         AsylumFilledFromBelow,
                         NoDonorRows(Column(SheetLabels(ds, raw), 1))) ]_vars

FilledAcrossBlank(before, after) ==
    \E i \in 1..(Len(before) - 2) :
        /\ IsNa(before[i]) /\ IsNa(before[i + 1]) /\ NotNa(before[i + 2])
        /\ after[i] = before[i + 2]
        /\ after[i + 1] = before[i + 2]

\* C24 witness: inference has filled two blank cells, one above the other,
\* from the cell below them
C24_TwoBlanksFilledFromBelow ==
    /\ pc = "transformed"
    /\ FilledAcrossBlank(Column(ParseGrid(ds, raw, trim_bottom).labels, 1),
                         Column(wide.labels, 1))

(***************************************************************************)
(* Runs over three-level sheets with two parent labels                     *)
(***************************************************************************)
MaxGroupRows == 3

L_y == Str(<<"y">>)

GroupRowChoices ==
    {<<a, b, L_p>> : a \in {NaN, L_A, L_Ontario}, b \in {NaN, L_x, L_y}}

InitGroup ==
    \E d \in {"pr", "imp_tfw"} :
    \E labs \in SeqsUpTo(GroupRowChoices, 1, MaxGroupRows) :
    \E neq \in BOOLEAN :
        Start(d, Sheet(d, Len(labs[1]), HeaderYears(d), HeaderMonths(d), labs,
                       PlainValues(Len(labs), Len(HeaderYears(d)))),
              TRUE, neq)

SpecGroup == InitGroup /\ [][Next]_vars

(***************************************************************************)
(* Properties of the backfill of the intermediate levels                   *)
(***************************************************************************)
\* the intermediate levels of a hierarchy of depth n (columns 2 .. n-1)
IntermediateLevels(n) == 2..(n - 1)

ParentKey(labels, j, i) == SubSeq(labels[i], 1, j - 1)

LabelledBelow(labels, j, i) == {m \in (i + 1)..Len(labels) : NotNa(labels[m][j])}

\* every row from row i down to row m has the parent key of row i
SameParentDownTo(labels, j, i, m) ==
    \A n \in i..m : ParentKey(labels, j, n) = ParentKey(labels, j, i)

\* a blank cell is filled only from the nearest non-blank cell below, and
\* only when no row down to it has another parent key
FilledWithinRun(before, after, j, i) ==
    NotNa(after[i][j]) =>
        /\ LabelledBelow(before, j, i) # {}
        /\ SameParentDownTo(after, j, i, MinOf(LabelledBelow(before, j, i)))
        /\ after[i][j] = before[MinOf(LabelledBelow(before, j, i))][j]

\* the rows below row i with its parent key and a label in column j
GroupLabelledBelow(before, after, j, i) ==
    {m \in LabelledBelow(before, j, i) :
        ParentKey(after, j, m) = ParentKey(after, j, i)}

\* a blank cell holds the label of the nearest row below that has the same
\* parent key and a label, whatever rows lie between
FilledWithinGroup(before, after, j, i) ==
    IF GroupLabelledBelow(before, after, j, i) = {} THEN IsNa(after[i][j])
    ELSE after[i][j] = before[MinOf(GroupLabelledBelow(before, after, j, i))][j]

IntermediateBlanks(labels, n) ==
    {c \in IntermediateLevels(n) \X (1..Len(labels)) : IsNa(labels[c[2]][c[1]])}

\* C25: a blank cell at an intermediate level is filled with the nearest
\* non-blank value below it only when every row from the blank row down to
\* the donor row has the same labels at all shallower levels; a label is
\* never carried across a row whose parent key differs
C25_IntermediateFillResetsAtParentChange ==
    [][InferenceStep =>
         \A c \in IntermediateBlanks(wide.labels, Len(wide.hcols)) :
             FilledWithinRun(wide.labels, wide'.labels, c[1], c[2])]_vars

\* the fill as coded: within the group of all rows with the same parent key
IntermediateFillWithinGroup ==
    [][InferenceStep =>
         \A c \in IntermediateBlanks(wide.labels, Len(wide.hcols)) :
             FilledWithinGroup(wide.labels, wide'.labels, c[1], c[2])]_vars

CarriedAcross(before, after, j) ==
    \E i \in 1..Len(before) : \E n \in (i + 1)..Len(before) :
    \E m \in (n + 1)..Len(before) :
        /\ IsNa(before[i][j]) /\ NotNa(before[m][j])
        /\ after[i][j] = before[m][j]
        /\ ParentKey(after, j, n) # ParentKey(after, j, i)
        /\ ParentKey(after, j, m) = ParentKey(after, j, i)
        /\ after[n][j] # after[i][j]

\* C25 witness: inference has filled a blank intermediate cell with the label
\* of a row of the same parent key that lies below a row of another parent key
C25_LabelCarriedAcrossOtherParent ==
    /\ pc = "transformed"
    /\ Len(wide.hcols) >= 3
    /\ CarriedAcross(ParseGrid(ds, raw, trim_bottom).labels, wide.labels, 2)

(***************************************************************************)
(* Properties of the deepest level                                         *)
(***************************************************************************)
BlankAt(labels, j) == {i \in 1..Len(labels) : IsNa(labels[i][j])}

\* the rows of Rows with a blank cell in the deepest column have one still
DeepestStaysBlank(before, after, Rows) ==
    /\ Len(after) = Len(before)
    /\ \A i \in Rows \cap BlankAt(before, Len(before[1])) :
           IsNa(after[i][Len(after[1])])

AllRows(labels) == 1..Len(labels)

\* the rows extract_study relabels: province_territory, once backfilled, is
\* the anomaly label
AnomalyRows(d, after) ==
    IF d = "study" THEN {i \in 1..Len(after) : IsAnomalyRow(after[i])} ELSE {}

AnomalyLeafFilled ==
    /\ pc = "transformed" /\ ds = "study"
    /\ \E i \in 1..Len(wide.labels) :
           /\ IsNa(ParseGrid(ds, raw, trim_bottom).labels[i][2])
           /\ wide.labels[i][2] = Str(T_edu_not_stated)

\* the only hierarchy column of a one-column table has been backfilled
SingleColumnFilled ==
    /\ pc = "transformed" /\ Len(wide.hcols) = 1
    /\ \E i \in 1..Len(wide.labels) :
           /\ IsNa(ParseGrid(ds, raw, trim_bottom).labels[i][1])
           /\ NotNa(wide.labels[i][1])

(***************************************************************************)
(* Runs over sheets of one data row whose province label varies            *)
(***************************************************************************)
MaxCleanParts == 4

CleanParts == {<<"A">>, <<" ">>, <<"-">>, T_Total, T_total}

RECURSIVE JoinParts(_)
JoinParts(ps) == IF ps = <<>> THEN <<>> ELSE Head(ps) \o JoinParts(Tail(ps))

T_A_Total_Total == <<"A">> \o <<" ">> \o T_Total \o <<" ">> \o T_Total
T_A_Total_dash == <<"A">> \o <<" ">> \o T_Total \o <<" ", "-">>
T_A_dash_dash == <<"A", " ", "-", " ", "-">>

\* every text of at most MaxCleanParts parts, and some longer labels
CleanInputs ==
    {Str(JoinParts(ps)) : ps \in SeqsUpTo(CleanParts, 0, MaxCleanParts)}
        \cup {NaN, L_A_dash_Total, Str(T_A_Total_Total), Str(T_A_Total_dash), Str(T_A_dash_dash),
              Str(T_Anomaly), Str(<<" ">> \o T_anomaly_lower)}

\* the column _clean_province_territory_value is mapped over
CleanCol(d) == IF d = "asylum" THEN 2 ELSE 1

CleanRow(d, x) == IF d = "asylum" THEN <<L_A, x>> ELSE <<x, L_p>>

InitClean ==
    \E d \in {"pr", "imp_tfw", "study", "asylum"} :
    \E x \in CleanInputs :
        Start(d, Sheet(d, 2, HeaderYears(d), HeaderMonths(d), <<CleanRow(d, x)>>,
                       PlainValues(1, Len(HeaderYears(d)))),
              TRUE, TRUE)

SpecClean == InitClean /\ [][Next]_vars

(***************************************************************************)
(* Properties of label cleaning                                            *)
(***************************************************************************)
\* the label the sheet holds and the label of the parsed row
CleanInput == raw[Len(raw)][CleanCol(ds)]
CleanOutput == wide.labels[1][CleanCol(ds)]
CleanDone == pc = "parsed" /\ wide.ok /\ Len(wide.labels) = 1

\* the positions k from which s is white space followed by "total", in any case
TotalTails(s) ==
    {k \in 1..(Len(s) - Len(T_total)) :
        /\ ToLower(SubSeq(s, Len(s) - Len(T_total) + 1, Len(s))) = T_total
        /\ \A n \in k..(Len(s) - Len(T_total)) : IsSpace(s[n])}

WithoutTotalTail(s) ==
    IF TotalTails(s) = {} THEN s ELSE SubSeq(s, 1, MinOf(TotalTails(s)) - 1)

\* the positions k from which s is white space, if any, followed by "-"
DashTails(s) ==
    {k \in 1..Len(s) :
        /\ s[Len(s)] = "-"
        /\ \A n \in k..(Len(s) - 1) : IsSpace(s[n])}

WithoutDashTail(s) ==
    IF DashTails(s) = {} THEN s ELSE SubSeq(s, 1, MinOf(DashTails(s)) - 1)

SuffixesRemoved(d, s) ==
    IF d = "pr" THEN WithoutDashTail(WithoutTotalTail(s)) ELSE WithoutTotalTail(s)

IsStandaloneTotal(s) == ToLower(s) = T_total
IsKeptAnomaly(d, s) == d = "study" /\ ToLower(s) = T_anomaly_lower

\* blank unchanged, "Total" for a standalone total, else the trimmed input
\* less its suffixes (the anomaly label of extract_study being kept)
CleanedAs(d, x, y) ==
    IF IsNa(x) THEN y = x
    ELSE IF IsKeptAnomaly(d, Strip(AsStr(x))) THEN y = Str(T_Anomaly)
    ELSE IF IsStandaloneTotal(Strip(AsStr(x))) THEN y = Str(T_Total)
    ELSE y = Str(SuffixesRemoved(d, Strip(AsStr(x))))

EndsInSuffix(s) == EndsWith(s, <<" ">> \o T_Total) \/ EndsWith(s, <<" ", "-">>)

\* the result ends in " Total" or " -" only as the kept anomaly label
NoSuffixLeft(d, y) ==
    NotNa(y) /\ ~IsKeptAnomaly(d, AsStr(y)) => ~EndsInSuffix(AsStr(y))

CleanAgainSame(d, y) == clean_province_territory_value(d, y) = y

\* a cleaned label that cleaning would change again: one with a suffix left,
\* or a standalone total not spelled "Total"
HasSuffixLeft(d, s) ==
    /\ ~IsKeptAnomaly(d, s)
    /\ \/ TotalTails(s) # {}
       \/ d = "pr" /\ DashTails(s) # {}
       \/ IsStandaloneTotal(s) /\ s # T_Total

\* C27 as claimed: a blank input is returned unchanged, a standalone total
\* as "Total", any other input trimmed and less its trailing total and (in
\* extract_pr) dash suffix; the result never ends in " Total" or " -", and
\* cleaning a cleaned label changes nothing
C27_CleaningLeavesNoSuffix ==
    CleanDone =>
        /\ CleanedAs(ds, CleanInput, CleanOutput)
        /\ NoSuffixLeft(ds, CleanOutput)
        /\ CleanAgainSame(ds, CleanOutput)

\* C27: the three cases are as claimed; one suffix of each kind is removed,
\* and cleaning a cleaned label changes nothing when no suffix is left on it
C27_CleaningRemovesOneSuffix ==
    CleanDone =>
        /\ CleanedAs(ds, CleanInput, CleanOutput)
        /\ NotNa(CleanOutput) /\ ~HasSuffixLeft(ds, AsStr(CleanOutput))
               => CleanAgainSame(ds, CleanOutput)

\* C27 witness: extract_pr has cleaned "A - Total" to "A"
C27_DashTotalCleanedInPr ==
    /\ CleanDone /\ ds = "pr"
    /\ CleanInput = L_A_dash_Total
    /\ CleanOutput = L_A

\* a cleaned label that ends in " Total"
CleanedLabelEndsInTotal ==
    CleanDone /\ NotNa(CleanOutput) /\ EndsWith(AsStr(CleanOutput), <<" ">> \o T_Total)

\* a cleaned label of extract_pr that ends in " -"
CleanedLabelEndsInDash ==
    CleanDone /\ NotNa(CleanOutput) /\ EndsWith(AsStr(CleanOutput), <<" ", "-">>)

\* a cleaned label that is a lower-case "total"
CleanedLabelIsLowerTotal == CleanDone /\ CleanOutput = Str(T_total)

(***************************************************************************)
(* Properties of the identifiers of the long records                       *)
(***************************************************************************)
MeltStep == pc' = "melted" /\ ds # "hc"

\* the wide row that the record at position p of the long table comes from
WideRowOf(w, p) == MeltCell(p, Len(w.labels), Len(w.keys))[1]

\* every record has the labels and the total_flag of its wide row
CarriesIdentifiers(w, recs) ==
    \A p \in 1..Len(recs) :
        /\ recs[p].labels = w.labels[WideRowOf(w, p)]
        /\ recs[p].total_flag = w.flags[WideRowOf(w, p)]

\* a row of extract_pr or extract_imp_tfw with a category_1 column whose
\* province_territory contains "not stated", in any case
IsNotStatedRow(d, lab) ==
    /\ d \in {"pr", "imp_tfw"}
    /\ Len(lab) >= 2
    /\ NotNa(lab[1])
    /\ ContainsNoCase(AsStr(lab[1]), T_not_stated)

\* every record has the labels and the total_flag of its wide row, but for
\* category_1 of a "not stated" row, which reads "Not stated"
CarriesIdentifiersButNotStated(d, w, recs) ==
    \A p \in 1..Len(recs) :
        /\ recs[p].total_flag = w.flags[WideRowOf(w, p)]
        /\ Len(recs[p].labels) = Len(w.labels[WideRowOf(w, p)])
        /\ \A j \in 1..Len(recs[p].labels) :
               recs[p].labels[j] =
                   IF j = 2 /\ IsNotStatedRow(d, w.labels[WideRowOf(w, p)])
                   THEN Str(T_Not_stated)
                   ELSE w.labels[WideRowOf(w, p)][j]

\* C28 as claimed: each long record emitted for a wide row has exactly that
\* row's hierarchy labels and total_flag as they stood after total inference
C28_LongRecordsCarryIdentifiers ==
    [][MeltStep => CarriesIdentifiers(wide, long')]_vars

\* C28: so it is, but for category_1 of the rows of extract_pr and
\* extract_imp_tfw whose province_territory contains "not stated": their
\* records have category_1 "Not stated"
C28_LongRecordsCarryIdentifiersButNotStated ==
    [][MeltStep => CarriesIdentifiersButNotStated(ds, wide, long')]_vars

\* C28 witness: of two wide rows with category_1 "x", the records of the
\* "Not stated" row read "Not stated" and those of the other row read "x"
C28_CategoryRewrittenInNotStatedRow ==
    /\ pc = "melted" /\ ds \in {"pr", "imp_tfw"}
    /\ \E p, q \in 1..Len(long) :
           /\ wide.labels[WideRowOf(wide, p)] = <<L_NotStated, L_x>>
           /\ long[p].labels = <<L_NotStated, L_NotStated>>
           /\ wide.labels[WideRowOf(wide, q)] = <<L_Ontario, L_x>>
           /\ long[q].labels = <<L_Ontario, L_x>>
           /\ long[q].total_flag = wide.flags[WideRowOf(wide, q)]

(***************************************************************************)
(* Properties of the validators of sankey_asylum_data and                  *)
(* sankey_study_data                                                       *)
(***************************************************************************)
SelfChecking == ds \in {"asylum", "study"}

\* every link row is a group sum of the long rows with a level label, and
\* every such long row is in one group
LinksAreGroupSums(ldf, lk) ==
    /\ \A i \in 1..Len(ldf) :
           NotNa(ldf[i].lev[1]) =>
               \E l \in lk : /\ l.prov = ldf[i].prov /\ l.year = ldf[i].year
                             /\ l.target = ldf[i].lev[1]
    /\ \A l \in lk :
           l.value = SumValues(SelectSeq(ldf, LAMBDA r :
                         /\ r.prov = l.prov /\ r.year = l.year
                         /\ NotNa(r.lev[1]) /\ r.lev[1] = l.target))

\* C29: _validate_aggregates of sankey_asylum_data and sankey_study_data
\* never raises: the links are group sums of the rows they are compared
\* with, and the per-label sums and the overall total agree exactly,
\* whatever flags, labels and values the CSV holds
C29_ValidationNeverRaises ==
    SelfChecking =>
        /\ sankey_err # "AssertionError"
        /\ sankey_pc \in {"built", "validated", "written"} =>
               /\ LinksAreGroupSums(long_df, links[1])
               /\ ~SumsDiffer(ds, long_df, links)

\* C29 witness: sankey_asylum_data has written its artifact from a CSV in
\* which the row of office "A" with a blank province, a subtotal left with
\* total_flag False, is counted beside a detail row of office "A"
C29_UnflaggedSubtotalPasses ==
    /\ ds = "asylum"
    /\ sankey_pc = "written"
    /\ html # NoFile
    /\ \E i, j \in 1..Len(csv.rows) :
           /\ csv.rows[i].labels = <<L_A, L_x>> /\ ~csv.rows[i].total_flag
           /\ csv.rows[j].labels = <<L_A, NaN>> /\ ~csv.rows[j].total_flag
           /\ csv.rows[i].value = 1 /\ csv.rows[j].value = 1
    /\ SumLinks(links[1]) = 2

(***************************************************************************)
(* Runs of extract_imp_tfw over three-level sheets in which category_1 and *)
(* category_2 may hold the same label                                      *)
(***************************************************************************)
MaxCollideRows == 2

CollideRowChoices ==
    {<<a, b, c>> : a \in {NaN, L_A, L_Total}, b \in {NaN, L_x}, c \in {NaN, L_x, L_p}}

InitCollide ==
    \E labs \in SeqsUpTo(CollideRowChoices, 1, MaxCollideRows) :
    \E neq \in BOOLEAN :
        Start("imp_tfw",
              Sheet("imp_tfw", Len(labs[1]), HeaderYears("imp_tfw"),
                    HeaderMonths("imp_tfw"), labs,
                    PlainValues(Len(labs), Len(HeaderYears("imp_tfw")))),
              TRUE, neq)

SpecCollide == InitCollide /\ [][Next]_vars

(***************************************************************************)
(* Properties of the collision rename                                      *)
(***************************************************************************)
HasBothCategories(w) ==
    \E j, k \in 1..Len(w.hcols) : w.hcols[j] = "category_1" /\ w.hcols[k] = "category_2"

\* category_1 and category_2 hold the same label
SameCategories(lab) == NotNa(lab[2]) /\ NotNa(lab[3]) /\ lab[2] = lab[3]

Suffixed(x) == Str(AsStr(x) \o T_subcategory)

\* after the rename: no unflagged row holds the same label twice; the
\* unflagged rows that did have category_2 suffixed, and every other row is
\* as it was
Renamed(before, after, flags) ==
    /\ Len(after) = Len(before)
    /\ \A i \in 1..Len(after) :
           /\ ~flags[i] => ~SameCategories(after[i])
           /\ after[i] =
                  IF ~flags[i] /\ SameCategories(before[i])
                  THEN [before[i] EXCEPT ![3] = Suffixed(before[i][3])]
                  ELSE before[i]

\* C30: after transform_hierarchical of extract_imp_tfw on a table with
\* category_1 and category_2, no row with total_flag False has category_1
\* equal to category_2, such rows having category_2 suffixed with
\* " (subcategory)"; the labels of every row with total_flag True and of
\* every non-colliding row are as the backfill left them
C30_CollisionRename ==
    [][InferenceStep /\ ds = "imp_tfw" /\ HasBothCategories(wide) =>
         Renamed(Infill(wide.labels, Len(wide.hcols)), wide'.labels, wide'.flags)]_vars

\* C30 witness: of two rows with category_1 = category_2 = "x", the detail
\* row has category_2 "x (subcategory)" and the flagged "Total" row has "x"
C30_DetailRenamedTotalKept ==
    /\ pc = "transformed" /\ ds = "imp_tfw"
    /\ Len(wide.labels) = 2
    /\ wide.labels[1] = <<L_A, L_x, Suffixed(L_x)>> /\ ~wide.flags[1]
    /\ wide.labels[2] = <<L_Total, L_x, L_x>> /\ wide.flags[2]

====
